---- MODULE Spec2Model ----
(***************************************************************************)
(* Model of example_scripts/process_x12_997_files.js: the X12 997          *)
(* pre-processor.  A JavaScript string is a sequence of one-character      *)
(* strings; a value that may be `undefined` is a record [undef, s].        *)
(***************************************************************************)
EXTENDS Integers, Sequences, FiniteSets, TLC

(* ------------------------------------------------------------------ *)
(* Bounds of the model                                                  *)
(* ------------------------------------------------------------------ *)
MaxFiles == 2
MaxSegs == 2

(* ------------------------------------------------------------------ *)
(* JavaScript string primitives                                         *)
(* ------------------------------------------------------------------ *)
Undefined == [undef |-> TRUE, s |-> <<>>]
Str(s) == [undef |-> FALSE, s |-> s]

\* edi[i]: the character at 0-based offset i, undefined past the end
CharAt(edi, i) == IF i < Len(edi) THEN Str(<<edi[i + 1]>>) ELSE Undefined

\* String.prototype.startsWith
StartsWith(s, p) == Len(s) >= Len(p) /\ SubSeq(s, 1, Len(p)) = p

\* String.prototype.indexOf: 0-based offset of the first occurrence, -1 if none
\* (here and below, CHOOSE v \in { e : x \in {arg} } : TRUE is e with arg
\* evaluated once)
IndexOf(str, pattern) ==
  CHOOSE at \in
    { LET hits == { i \in 1..(Len(s) - Len(p) + 1) : SubSeq(s, i, i + Len(p) - 1) = p }
      IN  IF hits = {} THEN -1
          ELSE (CHOOSE i \in hits : \A j \in hits : i <= j) - 1 :
        s \in {str}, p \in {pattern} } : TRUE

\* String.prototype.substr(start, length)
Substr(s, start, length) ==
  SubSeq(s, start + 1, IF start + length <= Len(s) THEN start + length ELSE Len(s))

\* String.prototype.split with a non-empty separator
RECURSIVE SplitOn(_, _)
SplitOn(str, separator) ==
  CHOOSE pieces \in
    { LET k == IndexOf(s, sep)
      IN  IF k = -1 THEN <<s>>
          ELSE <<SubSeq(s, 1, k)>> \o SplitOn(SubSeq(s, k + Len(sep) + 1, Len(s)), sep) :
        s \in {str}, sep \in {separator} } : TRUE

\* str.split(sep) where sep may be undefined (then the whole string is the only piece)
Split(s, sep) == IF sep.undef THEN <<s>> ELSE SplitOn(s, sep.s)

Whitespace == {" ", "\t", "\n", "\r"}
\* s.trim().length > 0
NotBlank(s) == \E i \in 1..Len(s) : s[i] \notin Whitespace

Lower == <<"a", "b", "c", "d", "e", "f", "g", "h", "i", "j", "k", "l", "m",
           "n", "o", "p", "q", "r", "s", "t", "u", "v", "w", "x", "y", "z">>
Upper == <<"A", "B", "C", "D", "E", "F", "G", "H", "I", "J", "K", "L", "M",
           "N", "O", "P", "Q", "R", "S", "T", "U", "V", "W", "X", "Y", "Z">>
\* String.prototype.toUpperCase
ToUpperCase(s) ==
  [i \in 1..Len(s) |->
     IF \E k \in 1..26 : Lower[k] = s[i]
     THEN Upper[CHOOSE k \in 1..26 : Lower[k] = s[i]]
     ELSE s[i]]

\* Array.prototype.find: first element satisfying the test, else undefined
FindStartsWith(segs, p) ==
  CHOOSE found \in
    { LET hits == { i \in 1..Len(list) : StartsWith(list[i], p) }
      IN  IF hits = {} THEN Undefined
          ELSE Str(list[CHOOSE i \in hits : \A j \in hits : i <= j]) :
        list \in {segs} } : TRUE

\* ElemOr without the default: a missing element reads as "undefined"
ElemOr_NoDefault(elements, index, dflt) ==
  IF index < Len(elements) THEN elements[index + 1]
  ELSE <<"u", "n", "d", "e", "f", "i", "n", "e", "d">>

\* elements[index] || ''
ElemOr(elements, index, dflt) ==
  CHOOSE element \in
    { IF index < Len(list) /\ list[index + 1] # <<>> THEN list[index + 1] ELSE dflt :
        list \in {elements} } : TRUE

(* ------------------------------------------------------------------ *)
(* Literals of the script                                               *)
(* ------------------------------------------------------------------ *)
IsaLit == <<"I", "S", "A">>
StLit == <<"S", "T">>
GsLit == <<"G", "S">>
Ak1Lit == <<"A", "K", "1">>
Ak2Lit == <<"A", "K", "2">>
Ak3Lit == <<"A", "K", "3">>
Ak4Lit == <<"A", "K", "4">>
Ak5Lit == <<"A", "K", "5">>
Ak9Lit == <<"A", "K", "9">>
Lit997 == <<"9", "9", "7">>
StatusA == <<"A">>
CodeR == <<"R">>
Zero == <<"0">>
UndefinedText == <<"u", "n", "d", "e", "f", "i", "n", "e", "d">>
IsaWindow == 106

(* ------------------------------------------------------------------ *)
(* parseDelimiters and safeSplit                                        *)
(* ------------------------------------------------------------------ *)
\* the text a possibly-undefined value contributes to a string concatenation
TextOf(v) == IF v.undef THEN UndefinedText ELSE v.s

parseDelimiters(edi) ==
  LET e106 == CharAt(edi, 106)
      base == CharAt(edi, 105)
  IN  [elementSep |-> CharAt(edi, 3),
       subElementSep |-> CharAt(edi, 104),
       segmentTerminator |->
         IF ~e106.undef /\ (e106.s = <<"\n">> \/ e106.s = <<"\r">>)
         THEN Str(TextOf(base) \o e106.s)
         ELSE base]

\* safeSplit(str, sep) without an index: the list of pieces
safeSplit(str, sep) ==
  CHOOSE splitSegment \in
    { IF text.undef \/ text.s = <<>> THEN <<>> ELSE Split(text.s, sep) : text \in {str} } : TRUE

\* safeSplit(str, sep, index): the piece at index, '' when missing or empty
safeSplitAt(str, sep, index) == ElemOr(safeSplit(str, sep), index, <<>>)

(* ------------------------------------------------------------------ *)
(* Error code tables                                                    *)
(* ------------------------------------------------------------------ *)
AK3_ERROR_ENUM ==
  (<<"1">> :> "Unrecognized segment ID") @@
  (<<"2">> :> "Unexpected segment") @@
  (<<"3">> :> "Mandatory segment missing") @@
  (<<"4">> :> "Loop occurs over maximum times") @@
  (<<"5">> :> "Segment exceeds maximum use") @@
  (<<"6">> :> "Segment not in defined transaction set") @@
  (<<"7">> :> "Segment not in proper sequence") @@
  (<<"8">> :> "Segment has data element errors")

AK4_ERROR_ENUM ==
  (<<"1">> :> "Mandatory data element missing") @@
  (<<"2">> :> "Conditional required data element missing") @@
  (<<"3">> :> "Too many data elements") @@
  (<<"4">> :> "Data element too short") @@
  (<<"5">> :> "Data element too long") @@
  (<<"6">> :> "Invalid character in data element") @@
  (<<"7">> :> "Invalid code value") @@
  (<<"8">> :> "Invalid date") @@
  (<<"9">> :> "Invalid time") @@
  (<<"1", "0">> :> "Exclusion condition violated") @@
  (<<"1", "2">> :> "Too many repetitions") @@
  (<<"1", "3">> :> "Too many components") @@
  (<<"1", "6">> :> "Composite data structure contains excess trailing delimiters")

AK5_CODE_ENUM ==
  (<<"A">> :> "Accepted") @@
  (<<"E">> :> "Accepted but errors were noted") @@
  (<<"M">> :> "Rejected, message authentication code (MAC) failed") @@
  (<<"R">> :> "Rejected") @@
  (<<"W">> :> "Rejected, assurance failed validity tests") @@
  (<<"X">> :> "Rejected, content after decryption could not be analyzed")

AK9_CODE_ENUM ==
  (<<"A">> :> "Accepted") @@
  (<<"E">> :> "Accepted but errors were noted") @@
  (<<"P">> :> "Partially accepted") @@
  (<<"R">> :> "Rejected")

\* the tables are object literals, so a lookup by one of these names finds the
\* (truthy) property inherited from Object.prototype
ObjectPrototypeKeys ==
  {<<"c", "o", "n", "s", "t", "r", "u", "c", "t", "o", "r">>,
   <<"t", "o", "S", "t", "r", "i", "n", "g">>,
   <<"v", "a", "l", "u", "e", "O", "f">>,
   <<"h", "a", "s", "O", "w", "n", "P", "r", "o", "p", "e", "r", "t", "y">>,
   <<"i", "s", "P", "r", "o", "t", "o", "t", "y", "p", "e", "O", "f">>,
   <<"p", "r", "o", "p", "e", "r", "t", "y", "I", "s", "E", "n", "u", "m", "e", "r", "a", "b", "l", "e">>,
   <<"t", "o", "L", "o", "c", "a", "l", "e", "S", "t", "r", "i", "n", "g">>,
   <<"_", "_", "p", "r", "o", "t", "o", "_", "_">>,
   <<"_", "_", "d", "e", "f", "i", "n", "e", "G", "e", "t", "t", "e", "r", "_", "_">>,
   <<"_", "_", "d", "e", "f", "i", "n", "e", "S", "e", "t", "t", "e", "r", "_", "_">>,
   <<"_", "_", "l", "o", "o", "k", "u", "p", "G", "e", "t", "t", "e", "r", "_", "_">>,
   <<"_", "_", "l", "o", "o", "k", "u", "p", "S", "e", "t", "t", "e", "r", "_", "_">>}

\* Describe whose fallback text leaves the code out
Describe_FallbackWithoutCode(table, code, prefix) ==
  IF code \in DOMAIN table
  THEN [known |-> TRUE, inherited |-> FALSE, text |-> table[code], code |-> code]
  ELSE [known |-> FALSE, inherited |-> code \in ObjectPrototypeKeys, text |-> prefix, code |-> <<>>]

\* TABLE[code] || <prefix><code>: a description is the table's text when the
\* code is a key, the inherited property when the code names one (then
\* neither the table's text nor the fallback is used), else the fallback
\* prefix followed by the code itself
Describe(table, code, prefix) ==
  IF code \in DOMAIN table
  THEN [known |-> TRUE, inherited |-> FALSE, text |-> table[code], code |-> code]
  ELSE IF code \in ObjectPrototypeKeys
  THEN [known |-> FALSE, inherited |-> TRUE, text |-> "", code |-> code]
  ELSE [known |-> FALSE, inherited |-> FALSE, text |-> prefix, code |-> code]

(* ------------------------------------------------------------------ *)
(* parse997File: the gate (lines 80-96)                                 *)
(* ------------------------------------------------------------------ *)
isaStartOf(body) == IndexOf(body, IsaLit)
isaSegOf(body) == Substr(body, isaStartOf(body), IsaWindow)
elementSepOf(body) == parseDelimiters(isaSegOf(body)).elementSep
rawSegmentsOf(body) ==
  SelectSeq(Split(body, parseDelimiters(isaSegOf(body)).segmentTerminator), NotBlank)
st01Of(body) == safeSplitAt(FindStartsWith(rawSegmentsOf(body), StLit), elementSepOf(body), 1)

\* Gate that raises when the content after "ISA" is shorter than the window
Gate_ShortWindowThrows(file) ==
  IF file.body.undef THEN "throw"
  ELSE IF isaStartOf(file.body.s) = -1 THEN "no_isa"
  ELSE IF Len(isaSegOf(file.body.s)) < IsaWindow THEN "throw"
  ELSE IF st01Of(file.body.s) # Lit997 THEN "not_997"
  ELSE "ok"

\* Gate that raises when the body has no "ISA"
Gate_NoIsaThrows(file) ==
  IF file.body.undef THEN "throw"
  ELSE IF isaStartOf(file.body.s) = -1 THEN "throw"
  ELSE IF st01Of(file.body.s) # Lit997 THEN "not_997"
  ELSE "ok"

\* Gate that only requires an ST segment with some identifier
Gate_AnyStId(file) ==
  IF file.body.undef THEN "throw"
  ELSE IF isaStartOf(file.body.s) = -1 THEN "no_isa"
  ELSE IF st01Of(file.body.s) = <<>> THEN "not_997"
  ELSE "ok"

\* how parse997File leaves the gate: "throw" (body is not a string, so
\* body.indexOf raises into the catch), "no_isa", "not_997", or "ok"
Gate(file) ==
  IF file.body.undef THEN "throw"
  ELSE IF isaStartOf(file.body.s) = -1 THEN "no_isa"
  ELSE IF st01Of(file.body.s) # Lit997 THEN "not_997"
  ELSE "ok"

\* the tags of the one publication made once the gate is passed (lines 98-103)
EnvelopeTags(body) ==
  <<[label |-> "997 Ack File Interchange Control Number",
     value |-> safeSplitAt(Str(isaSegOf(body)), elementSepOf(body), 13)],
    [label |-> "997 Ack File Group Control Number",
     value |-> safeSplitAt(FindStartsWith(rawSegmentsOf(body), GsLit), elementSepOf(body), 6)]>>

\* the catch block's log line (line 213)
FileErrorEntry(file) ==
  [level |-> "error", kind |-> "Error processing file", file_name |-> file.file_name]

(* ------------------------------------------------------------------ *)
(* parse997File: the walker (lines 105-209)                             *)
(* The walker state is the record of the closure's variables.           *)
(* currentSegment is a reference to an entry of currentSegmentErrors,   *)
(* kept as its 1-based position, 0 for null.                            *)
(* ------------------------------------------------------------------ *)
\* FreshWalker with overallStatus initialised to the empty string
FreshWalker_EmptyStatus ==
  [currentDocType |-> <<>>,
   currentControlNumber |-> <<>>,
   currentSegmentErrors |-> <<>>,
   currentSegment |-> 0,
   overallStatus |-> <<>>,
   ak102 |-> Undefined]

FreshWalker ==
  [currentDocType |-> <<>>,
   currentControlNumber |-> <<>>,
   currentSegmentErrors |-> <<>>,
   currentSegment |-> 0,
   overallStatus |-> StatusA,
   ak102 |-> Undefined]

\* the walker state a call of parse997File starts from, prev being the state
\* the previous call ended in, if overallStatus were declared outside the function
EnterWalker_SharedStatus(prev) ==
  [FreshWalker EXCEPT !.overallStatus = prev.overallStatus]

\* the walker state a call of parse997File starts from: the variables are
\* locals of the call (lines 106-110, 145), whatever state prev the previous
\* call ended in
EnterWalker(prev) == FreshWalker

\* flushTransaction that sends every code but "A" and "E" to the error log
flushTransaction_ErrorUnlessAccepted(w, ackCode) ==
  IF w.currentDocType = <<>>
  THEN [w |-> w, log |-> <<>>]
  ELSE [w |-> [w EXCEPT !.currentDocType = <<>>,
                        !.currentControlNumber = <<>>,
                        !.currentSegmentErrors = <<>>,
                        !.currentSegment = 0],
        log |-> <<[level |-> IF ackCode \notin {<<"A">>, <<"E">>} THEN "error" ELSE "info",
                   kind |-> "Transaction",
                   docType |-> w.currentDocType,
                   controlNumber |-> w.currentControlNumber,
                   ackDesc |-> Describe(AK5_CODE_ENUM, ackCode, ""),
                   segmentErrors |-> w.currentSegmentErrors]>>]

\* flushTransaction without the guard of line 113
flushTransaction_NoGuard(w, ackCode) ==
  [w |-> [w EXCEPT !.currentDocType = <<>>,
                   !.currentControlNumber = <<>>,
                   !.currentSegmentErrors = <<>>,
                   !.currentSegment = 0],
   log |-> <<[level |-> IF ackCode = <<"R">> THEN "error" ELSE "info",
              kind |-> "Transaction",
              docType |-> w.currentDocType,
              controlNumber |-> w.currentControlNumber,
              ackDesc |-> Describe(AK5_CODE_ENUM, ackCode, ""),
              segmentErrors |-> w.currentSegmentErrors]>>]

\* flushTransaction(ackCode), lines 112-143
flushTransaction(w, ackCode) ==
  IF w.currentDocType = <<>>
  THEN [w |-> w, log |-> <<>>]
  ELSE [w |-> [w EXCEPT !.currentDocType = <<>>,
                        !.currentControlNumber = <<>>,
                        !.currentSegmentErrors = <<>>,
                        !.currentSegment = 0],
        log |-> <<[level |-> IF ackCode = CodeR THEN "error" ELSE "info",
                   kind |-> "Transaction",
                   docType |-> w.currentDocType,
                   controlNumber |-> w.currentControlNumber,
                   ackDesc |-> Describe(AK5_CODE_ENUM, ackCode, ""),
                   segmentErrors |-> w.currentSegmentErrors]>>]

\* StepAK1 that publishes the tag for the first AK1 of the file only
StepAK1_FirstOnly(w, elements) ==
  LET ak102 == ElemOr(elements, 2, <<>>)
  IN  [w |-> [w EXCEPT !.ak102 = Str(ak102)],
       log |-> <<>>,
       tags |-> IF w.ak102.undef
                THEN <<<<[label |-> "997 Acked Group Control Number", value |-> ak102]>>>>
                ELSE <<>>]

\* lines 147-152; tags is the list of publishDataTags calls made, each a list
StepAK1(w, elements) ==
  LET ak102 == ElemOr(elements, 2, <<>>)
  IN  [w |-> [w EXCEPT !.ak102 = Str(ak102)],
       log |-> <<>>,
       tags |-> <<<<[label |-> "997 Acked Group Control Number", value |-> ak102]>>>>]

\* StepAK2 that keeps the segment errors accumulated so far
StepAK2_KeepErrors(w, elements) ==
  [w |-> [w EXCEPT !.currentDocType = ElemOr(elements, 1, <<>>),
                   !.currentControlNumber = ElemOr(elements, 2, <<>>)],
   log |-> <<>>, tags |-> <<>>]

\* lines 153-158
StepAK2(w, elements) ==
  [w |-> [w EXCEPT !.currentDocType = ElemOr(elements, 1, <<>>),
                   !.currentControlNumber = ElemOr(elements, 2, <<>>),
                   !.currentSegmentErrors = <<>>,
                   !.currentSegment = 0],
   log |-> <<>>, tags |-> <<>>]

\* StepAK3 that pushes the segment error without making it the current one
StepAK3_NoCursor(w, elements) ==
  [w |-> [w EXCEPT !.currentSegmentErrors =
                     Append(w.currentSegmentErrors,
                            [segId |-> ElemOr(elements, 1, <<>>),
                             segPos |-> ElemOr(elements, 2, <<>>),
                             loopId |-> ElemOr(elements, 3, <<>>),
                             segError |-> Describe(AK3_ERROR_ENUM, ElemOr(elements, 4, <<>>),
                                                   "Error code "),
                             elementErrors |-> <<>>]),
                   !.currentSegment = IF w.currentSegment = 0 THEN 1 ELSE w.currentSegment],
   log |-> <<>>, tags |-> <<>>]

\* lines 159-174
StepAK3(w, elements) ==
  LET errorCode == ElemOr(elements, 4, <<>>)
      entry == [segId |-> ElemOr(elements, 1, <<>>),
                segPos |-> ElemOr(elements, 2, <<>>),
                loopId |-> ElemOr(elements, 3, <<>>),
                segError |-> Describe(AK3_ERROR_ENUM, errorCode, "Error code "),
                elementErrors |-> <<>>]
  IN  [w |-> [w EXCEPT !.currentSegmentErrors = Append(w.currentSegmentErrors, entry),
                       !.currentSegment = Len(w.currentSegmentErrors) + 1],
       log |-> <<>>, tags |-> <<>>]

\* StepAK4 that opens a segment error of its own when none is current
StepAK4_Orphan(w, elements) ==
  LET entry == [pos |-> IF ElemOr(elements, 2, <<>>) # <<>>
                        THEN ElemOr(elements, 2, <<>>) ELSE ElemOr(elements, 1, <<>>),
                error |-> Describe(AK4_ERROR_ENUM, ElemOr(elements, 3, <<>>), "Error code "),
                value |-> ElemOr(elements, 4, <<>>)]
      k == w.currentSegment
  IN  [w |-> IF k # 0
             THEN [w EXCEPT !.currentSegmentErrors[k].elementErrors =
                              Append(w.currentSegmentErrors[k].elementErrors, entry)]
             ELSE [w EXCEPT !.currentSegmentErrors =
                              Append(w.currentSegmentErrors,
                                     [segId |-> <<>>, segPos |-> <<>>, loopId |-> <<>>,
                                      segError |-> Describe(AK3_ERROR_ENUM, <<>>, "Error code "),
                                      elementErrors |-> <<entry>>]),
                            !.currentSegment = Len(w.currentSegmentErrors) + 1],
       log |-> <<>>, tags |-> <<>>]

\* lines 175-189
StepAK4(w, elements) ==
  LET elementPos == ElemOr(elements, 1, <<>>)
      elementRef == ElemOr(elements, 2, <<>>)
      errorCode == ElemOr(elements, 3, <<>>)
      badValue == ElemOr(elements, 4, <<>>)
      entry == [pos |-> IF elementRef # <<>> THEN elementRef ELSE elementPos,
                error |-> Describe(AK4_ERROR_ENUM, errorCode, "Error code "),
                value |-> badValue]
      k == w.currentSegment
  IN  [w |-> IF k # 0
             THEN [w EXCEPT !.currentSegmentErrors[k].elementErrors =
                              Append(w.currentSegmentErrors[k].elementErrors, entry)]
             ELSE w,
       log |-> <<>>, tags |-> <<>>]

\* lines 190-193
StepAK5(w, elements) ==
  LET r == flushTransaction(w, ElemOr(elements, 1, <<>>))
  IN  [w |-> r.w, log |-> r.log, tags |-> <<>>]

\* LatchTest without "&& overallStatus === 'A'": every non-accepted AK9 overwrites
LatchTest_LastWins(ak901, overallStatus) ==
  ToUpperCase(ak901) # <<"A">>

\* LatchTest that latches the literal rejection code only
LatchTest_OnlyR(ak901, overallStatus) ==
  ak901 = <<"R">> /\ overallStatus = <<"A">>

\* the first-error-wins test of line 202
\* LatchTest that compares the code with 'A' as written
LatchTest_CaseSensitive(ak901, overallStatus) ==
  ak901 # <<"A">> /\ overallStatus = <<"A">>

LatchTest(ak901, overallStatus) ==
  ToUpperCase(ak901) # StatusA /\ overallStatus = StatusA

\* StepAK9 that writes the error line for every non-accepted AK9
StepAK9_ErrorEveryTime(w, elements, file) ==
  LET ak901 == ElemOr(elements, 1, <<>>)
      ackDesc == Describe(AK9_CODE_ENUM, ak901, "")
      summary == [level |-> "info", kind |-> "Functional Group Result",
                  ak102 |-> TextOf(w.ak102), ackDesc |-> ackDesc,
                  accepted |-> ElemOr(elements, 4, Zero),
                  received |-> ElemOr(elements, 3, Zero)]
  IN  IF ToUpperCase(ak901) # StatusA
      THEN [w |-> IF w.overallStatus = StatusA THEN [w EXCEPT !.overallStatus = ak901] ELSE w,
            log |-> <<summary,
                      [level |-> "error", kind |-> "Not Accepted",
                       ak102 |-> TextOf(w.ak102), ak901 |-> ak901,
                       file_name |-> file.file_name]>>,
            tags |-> <<>>]
      ELSE [w |-> w,
            log |-> <<summary,
                      [level |-> "info", kind |-> "Group Acknowledged",
                       ak102 |-> TextOf(w.ak102), ackDesc |-> ackDesc, ak901 |-> ak901,
                       file_name |-> file.file_name]>>,
            tags |-> <<>>]

\* lines 194-208
StepAK9(w, elements, file) ==
  LET ak901 == ElemOr(elements, 1, <<>>)
      ackDesc == Describe(AK9_CODE_ENUM, ak901, "")
      summary == [level |-> "info", kind |-> "Functional Group Result",
                  ak102 |-> TextOf(w.ak102), ackDesc |-> ackDesc,
                  accepted |-> ElemOr(elements, 4, Zero),
                  received |-> ElemOr(elements, 3, Zero)]
  IN  IF LatchTest(ak901, w.overallStatus)
      THEN [w |-> [w EXCEPT !.overallStatus = ak901],
            log |-> <<summary,
                      [level |-> "error", kind |-> "Not Accepted",
                       ak102 |-> TextOf(w.ak102), ak901 |-> ak901,
                       file_name |-> file.file_name]>>,
            tags |-> <<>>]
      ELSE [w |-> w,
            log |-> <<summary,
                      [level |-> "info", kind |-> "Group Acknowledged",
                       ak102 |-> TextOf(w.ak102), ackDesc |-> ackDesc, ak901 |-> ak901,
                       file_name |-> file.file_name]>>,
            tags |-> <<>>]

\* which branch of the if/else-if chain of lines 147-208 a segment takes
BranchOf(seg) ==
  IF StartsWith(seg, Ak1Lit) THEN "AK1"
  ELSE IF StartsWith(seg, Ak2Lit) THEN "AK2"
  ELSE IF StartsWith(seg, Ak3Lit) THEN "AK3"
  ELSE IF StartsWith(seg, Ak4Lit) THEN "AK4"
  ELSE IF StartsWith(seg, Ak5Lit) THEN "AK5"
  ELSE IF StartsWith(seg, Ak9Lit) THEN "AK9"
  ELSE "other"

\* one iteration of the loop of line 146
WalkStep(w, seg, elementSep, file) ==
  LET elements == safeSplit(Str(seg), elementSep)
      b == BranchOf(seg)
  IN  CASE b = "AK1" -> StepAK1(w, elements)
        [] b = "AK2" -> StepAK2(w, elements)
        [] b = "AK3" -> StepAK3(w, elements)
        [] b = "AK4" -> StepAK4(w, elements)
        [] b = "AK5" -> StepAK5(w, elements)
        [] b = "AK9" -> StepAK9(w, elements, file)
        [] OTHER -> [w |-> w, log |-> <<>>, tags |-> <<>>]

\* the whole loop over the first n segments, started from a fresh walker
RECURSIVE WalkPrefix(_, _, _, _)
WalkPrefix(segs, n, elementSep, file) ==
  IF n = 0 THEN FreshWalker
  ELSE WalkStep(WalkPrefix(segs, n - 1, elementSep, file), segs[n], elementSep, file).w

\* the value parse997File returns for a file (lines 84, 95, 211, 214)
parse997File(file) ==
  IF Gate(file) = "ok"
  THEN [is997 |-> TRUE, file |-> file,
        status |-> Str(WalkPrefix(rawSegmentsOf(file.body.s), Len(rawSegmentsOf(file.body.s)),
                                  elementSepOf(file.body.s), file).overallStatus)]
  ELSE [is997 |-> FALSE, file |-> file, status |-> Undefined]

(* ------------------------------------------------------------------ *)
(* Input files                                                          *)
(* ------------------------------------------------------------------ *)
Pad(n, c) == [i \in 1..n |-> c]

RECURSIVE Join(_, _)
\* the pieces joined with sep between them
Join(pieces, sep) ==
  IF Len(pieces) = 0 THEN <<>>
  ELSE IF Len(pieces) = 1 THEN pieces[1]
  ELSE pieces[1] \o sep \o Join(Tail(pieces), sep)

RECURSIVE Concat(_)
Concat(pieces) == IF Len(pieces) = 0 THEN <<>> ELSE pieces[1] \o Concat(Tail(pieces))

\* the 16 fixed-width ISA elements (ISA01..ISA16); ISA13 is the interchange
\* control number and ISA16 the sub-element separator
IsaElements ==
  <<Pad(2, "0"), Pad(10, " "), Pad(2, "0"), Pad(10, " "),
    <<"Z", "Z">>, Pad(15, "P"), <<"Z", "Z">>, Pad(15, "Q"),
    Pad(6, "1"), Pad(4, "2"), <<"U">>, Pad(5, "4"),
    Pad(6, "0") \o <<"9", "0", "5">>, <<"0">>, <<"T">>, <<">">>>>

\* a 105-character ISA segment followed by its terminator character
IsaHeader(sep, term) == Join(<<IsaLit>> \o IsaElements, sep) \o term

GsSegment == <<GsLit, <<"F", "A">>, <<"P">>, <<"Q">>, Pad(6, "1"), Pad(4, "2"),
               <<"7", "7">>, <<"X">>, <<"4", "0", "1", "0">>>>
StSegment(id) == <<StLit, id, <<"0", "0", "0", "1">>>>
SeSegment == <<<<"S", "E">>, <<"4">>, <<"0", "0", "0", "1">>>>

\* an interchange: ISA, GS, ST, the given segments, SE; every segment ends
\* with the terminator character followed by the line ending eol
Interchange(sep, term, eol, stId, segments) ==
  LET all == <<GsSegment, StSegment(stId)>> \o segments \o <<SeSegment>>
  IN  IsaHeader(sep, term) \o eol
        \o Concat([i \in 1..Len(all) |-> Join(all[i], sep) \o term \o eol])

Star == <<"*">>
Tilde == <<"~">>
NoEol == <<>>
Lf == <<"\n">>
CrLf == <<"\r", "\n">>
Id850 == <<"8", "5", "0">>

\* AK segments the generated files are built from
Ak1Seg == <<Ak1Lit, <<"P", "O">>, <<"4", "2">>>>
Ak2Seg == <<Ak2Lit, Id850, <<"0", "0", "0", "7">>>>
Ak3Seg == <<Ak3Lit, <<"N", "1">>, <<"4">>, <<"L", "P">>, <<"1">>>>
Ak3UnknownSeg == <<Ak3Lit, <<"R", "E", "F">>, <<"5">>, <<>>, <<"9">>>>
Ak4Seg == <<Ak4Lit, <<"2">>, <<"6", "6">>, <<"1">>, <<"X", "Y">>>>
Ak4BareSeg == <<Ak4Lit, <<"3">>, <<>>, <<"1", "1">>>>
Ak3InheritedSeg == <<Ak3Lit, <<"N", "1">>, <<"6">>, <<>>, <<"c", "o", "n", "s", "t", "r", "u", "c", "t", "o", "r">>>>
Ak2OtherSeg == <<Ak2Lit, <<"8", "1", "0">>, <<"0", "0", "0", "8">>>>
Ak2BlankSeg == <<Ak2Lit, <<>>, <<"0", "0", "0", "9">>>>
Ak5Seg(code) == <<Ak5Lit, code>>
Ak9Seg(code) == <<Ak9Lit, code, <<"1">>, <<"1">>, <<"1">>>>
Ak9Bare == <<Ak9Lit>>

SegmentPool ==
  {Ak1Seg, Ak2Seg, Ak3Seg, Ak3UnknownSeg, Ak4Seg, Ak4BareSeg,
   Ak5Seg(<<"A">>), Ak5Seg(CodeR), Ak5Seg(<<"M">>), Ak5Seg(<<"Z">>),
   Ak9Seg(<<"A">>), Ak9Seg(CodeR), Ak9Seg(<<"a">>), Ak9Seg(<<"E">>), Ak9Bare}

\* all sequences of at most n segments of the pool
RECURSIVE Scripts(_)
Scripts(n) ==
  IF n = 0 THEN {<<>>}
  ELSE LET shorter == Scripts(n - 1)
       IN  shorter \cup { Append(sc, sg) : sc \in shorter, sg \in SegmentPool }

File(name, body) == [file_name |-> name, body |-> body]

\* one bare-terminated 997 for every script: the inputs of single-file runs
GeneratedFiles ==
  { File("generated.edi", Str(Interchange(Star, Tilde, NoEol, Lit997, sc))) : sc \in Scripts(MaxSegs) }

\* longer walks: a transaction abandoned by a second AK2, a transaction with
\* two segment errors, segment errors met while no transaction is open, an
\* inherited property name as error code
DiscardedScript ==
  <<Ak1Seg, Ak2Seg, Ak3Seg, Ak4Seg, Ak2OtherSeg, Ak4BareSeg, Ak5Seg(CodeR), Ak9Seg(CodeR)>>
TwoErrorsScript ==
  <<Ak1Seg, Ak2Seg, Ak3Seg, Ak4Seg, Ak4BareSeg, Ak3UnknownSeg, Ak4Seg, Ak5Seg(<<"M">>),
    Ak2OtherSeg, Ak3UnknownSeg, Ak5Seg(<<"E">>), Ak9Seg(<<"P">>)>>
StrayScript ==
  <<Ak1Seg, Ak3Seg, Ak5Seg(<<"A">>), Ak4Seg, Ak2Seg, Ak5Seg(CodeR), Ak4Seg, Ak9Seg(<<"A">>)>>
BlankTypeScript ==
  <<Ak1Seg, Ak2BlankSeg, Ak3Seg, Ak4Seg, Ak5Seg(CodeR), Ak4BareSeg, Ak9Seg(CodeR)>>
InheritedScript ==
  <<Ak1Seg, Ak2Seg, Ak3InheritedSeg, Ak5Seg(<<"W">>), Ak9Seg(<<"R">>), Ak9Seg(<<"E">>), Ak9Seg(<<"A">>)>>

ScenarioFiles ==
  { File("scenario.edi", Str(Interchange(Star, Tilde, NoEol, Lit997, sc))) :
      sc \in {DiscardedScript, TwoErrorsScript, StrayScript, BlankTypeScript, InheritedScript} }

\* scenario C: a rejected transaction with one AK3 and one nested AK4
RejectedScript == <<Ak1Seg, Ak2Seg, Ak3Seg, Ak4Seg, Ak5Seg(CodeR), Ak9Seg(CodeR)>>
AcceptedScript == <<Ak1Seg, Ak2Seg, Ak5Seg(<<"A">>), Ak9Seg(<<"A">>)>>

TextFile == File("notes.txt", Str(<<"h", "e", "l", "l", "o", " ", "S", "T", "*", "9", "9", "7">>))
NoBodyFile == File("nobody.bin", Undefined)
TruncatedFile == File("truncated.edi", Str(IsaLit \o Star \o <<"0", "0">> \o Star))
TruncatedStFile == File("st_first.edi", Str(StLit \o Star \o Lit997 \o Star \o IsaLit \o Star))
PurchaseOrderFile == File("po850.edi", Str(Interchange(Star, Tilde, NoEol, Id850, <<Ak9Seg(CodeR)>>)))
AcceptedFile == File("accepted.edi", Str(Interchange(Star, Tilde, NoEol, Lit997, AcceptedScript)))
RejectedFile == File("rejected.edi", Str(Interchange(Star, Tilde, NoEol, Lit997, RejectedScript)))
LowerCaseFile == File("lower.edi", Str(Interchange(Star, Tilde, NoEol, Lit997, <<Ak1Seg, Ak9Seg(<<"a">>)>>)))
ErrorsNotedFile == File("noted.edi", Str(Interchange(Star, Tilde, NoEol, Lit997, <<Ak1Seg, Ak9Seg(<<"E">>)>>)))
NoAk9File == File("noak9.edi", Str(Interchange(Star, Tilde, NoEol, Lit997, <<Ak1Seg>>)))
LfFile == File("lf.edi", Str(Interchange(Star, Tilde, Lf, Lit997, <<Ak1Seg, Ak9Seg(<<"A">>)>>)))
CrLfFile == File("crlf.edi", Str(Interchange(Star, Tilde, CrLf, Lit997, <<Ak1Seg, Ak9Seg(<<"A">>)>>)))
NewlineTerminatedFile == File("nl.edi", Str(Interchange(<<"|">>, Lf, NoEol, Lit997, <<Ak1Seg, Ak9Seg(<<"A">>)>>)))

\* segments with elements missing, and files with an empty body, with blank
\* entries between terminators and no GS segment
ShortScript ==
  <<<<Ak1Lit>>, <<Ak2Lit, Id850>>, <<Ak3Lit>>, <<Ak4Lit>>, <<Ak5Lit>>, Ak9Bare,
    <<Ak1Lit, <<"P", "O">>>>, <<Ak9Lit, <<"A">>, <<"1">>, <<"2">>>>>>
ShortFieldsFile == File("short.edi", Str(Interchange(Star, Tilde, NoEol, Lit997, ShortScript)))
EmptyFile == File("empty.edi", Str(<<>>))
SparseFile ==
  File("sparse.edi",
       Str(IsaHeader(Star, Tilde) \o <<" ", " ">> \o Tilde
             \o Join(StSegment(Lit997), Star) \o Tilde \o <<"\n">> \o Tilde \o Tilde
             \o Join(Ak1Seg, Star) \o Tilde \o <<"\t">> \o Tilde
             \o Join(Ak9Seg(<<"A">>), Star) \o Tilde \o <<" ">>))
EdgeFiles == {ShortFieldsFile, EmptyFile, SparseFile}
\* batches that pair a file shorter than the ISA window with an empty one
EdgeBatches == {<<TruncatedFile, EmptyFile>>, <<EmptyFile, AcceptedFile>>}

\* the files batches are drawn from
Catalogue ==
  {TextFile, NoBodyFile, TruncatedFile, TruncatedStFile, PurchaseOrderFile,
   AcceptedFile, RejectedFile, LowerCaseFile, ErrorsNotedFile, NoAk9File,
   LfFile, CrLfFile, NewlineTerminatedFile}

RECURSIVE Batches(_)
\* all sequences of at most n catalogue files
Batches(n) ==
  IF n = 0 THEN {<<>>}
  ELSE LET shorter == Batches(n - 1)
       IN  shorter \cup { Append(b, f) : b \in shorter, f \in Catalogue }

(* ------------------------------------------------------------------ *)
(* The script as a state machine                                        *)
(* ------------------------------------------------------------------ *)
VARIABLES
  sourceFiles,           \* the input batch
  fileIdx,               \* number of files the loop of line 221 has finished
  pc,                    \* "loop": between files; "walk": in the segment loop; "done"
  rawSegments,           \* parse997File: the tokenized segments of the current file
  elementSep,            \* parse997File: the element separator of the current file
  segIdx,                \* position of the segment loop of line 146
  currentDocType,
  currentControlNumber,
  currentSegmentErrors,
  currentSegment,
  overallStatus,
  ak102,
  results,               \* the value of `result` (line 222) for every finished file
  payload,
  accepted,
  rejected,
  log,                   \* userLog: the entries written, in order
  tags,                  \* publishDataTags: the list of tags of every call, in order
  disposition,           \* which of returnSkipped/returnError/returnSuccess was called
  returned               \* the payload it was called with

\* the two file-list processors of the repository, each run on its own
VARIABLES
  destinationFiles,      \* sequentially_name_files: the input list
  nameIndex,             \* number of files lodash.map has called back for
  namedFiles,            \* its `files`: the mapped files so far
  namerLog,              \* userLog of that run
  namerResult,           \* the value of the script's last statement, once evaluated
  xmlSourceFiles,        \* xpath_file_filter: the input list (its sourceFiles)
  filterIndex,           \* number of files lodash.filter has called back for
  kept,                  \* its `files`: the files the predicate returned true for so far
  filterLog,             \* userLog of that run
  filterResult           \* the value of the script's last statement, once evaluated

namerVars == <<destinationFiles, nameIndex, namedFiles, namerLog, namerResult>>
filterVars == <<xmlSourceFiles, filterIndex, kept, filterLog, filterResult>>

walkerVars == <<currentDocType, currentControlNumber, currentSegmentErrors,
                currentSegment, overallStatus, ak102>>
parseVars == <<rawSegments, elementSep, segIdx>>
batchVars == <<payload, accepted, rejected>>
vars == <<sourceFiles, fileIdx, pc, rawSegments, elementSep, segIdx,
          currentDocType, currentControlNumber, currentSegmentErrors,
          currentSegment, overallStatus, ak102, results, payload, accepted,
          rejected, log, tags, disposition, returned, namerVars, filterVars>>
ackVars == <<sourceFiles, fileIdx, pc, rawSegments, elementSep, segIdx,
             currentDocType, currentControlNumber, currentSegmentErrors,
             currentSegment, overallStatus, ak102, results, payload, accepted,
             rejected, log, tags, disposition, returned>>

\* a processor that is not run
NotRun == [done |-> FALSE, value |-> <<>>]
NamerIdle ==
  /\ destinationFiles = <<>> /\ nameIndex = 0 /\ namedFiles = <<>>
  /\ namerLog = <<>> /\ namerResult = NotRun
FilterIdle ==
  /\ xmlSourceFiles = <<>> /\ filterIndex = 0 /\ kept = <<>>
  /\ filterLog = <<>> /\ filterResult = NotRun

Walker ==
  [currentDocType |-> currentDocType,
   currentControlNumber |-> currentControlNumber,
   currentSegmentErrors |-> currentSegmentErrors,
   currentSegment |-> currentSegment,
   overallStatus |-> overallStatus,
   ak102 |-> ak102]

SetWalker(w) ==
  /\ currentDocType' = w.currentDocType
  /\ currentControlNumber' = w.currentControlNumber
  /\ currentSegmentErrors' = w.currentSegmentErrors
  /\ currentSegment' = w.currentSegment
  /\ overallStatus' = w.overallStatus
  /\ ak102' = w.ak102

\* the state of the 997 script before its loop starts
AckStart ==
  /\ fileIdx = 0
  /\ pc = "loop"
  /\ rawSegments = <<>>
  /\ elementSep = Undefined
  /\ segIdx = 0
  /\ currentDocType = <<>>
  /\ currentControlNumber = <<>>
  /\ currentSegmentErrors = <<>>
  /\ currentSegment = 0
  /\ overallStatus = StatusA
  /\ ak102 = Undefined
  /\ results = <<>>
  /\ payload = <<>>
  /\ accepted = <<>>
  /\ rejected = <<>>
  /\ log = <<>>
  /\ tags = <<>>
  /\ disposition = "none"
  /\ returned = <<>>

Init ==
  /\ sourceFiles \in Batches(MaxFiles)
                       \cup { <<f>> : f \in GeneratedFiles \cup ScenarioFiles \cup EdgeFiles }
                       \cup EdgeBatches
  /\ AckStart
  /\ NamerIdle /\ FilterIdle

\* the file the loop of line 221 is at
sourceFile == sourceFiles[fileIdx + 1]

\* IsAcceptedStatus that treats every status but "R" as accepted
IsAcceptedStatus_NotR(status) == ~status.undef /\ status.s # <<"R">>

\* result.status === 'A' (line 225)
IsAcceptedStatus(status) == ~status.undef /\ status.s = StatusA

\* PushResult that pushes to payload only inside the accepted branch
PushResult_PayloadOnlyAccepted(result, lists) ==
  IF result.is997
  THEN [payload |-> IF ~result.status.undef /\ result.status.s = <<"A">>
                    THEN Append(lists.payload, result.file) ELSE lists.payload,
        accepted |-> IF ~result.status.undef /\ result.status.s = <<"A">>
                     THEN Append(lists.accepted, result.file) ELSE lists.accepted,
        rejected |-> IF ~result.status.undef /\ result.status.s = <<"A">>
                     THEN lists.rejected ELSE Append(lists.rejected, result.file)]
  ELSE lists

\* PushResult that counts a file that is not a 997 as a rejected one
PushResult_FailuresRejected(result, lists) ==
  [payload |-> Append(lists.payload, result.file),
   accepted |-> IF ~result.status.undef /\ result.status.s = <<"A">>
                THEN Append(lists.accepted, result.file) ELSE lists.accepted,
   rejected |-> IF ~result.status.undef /\ result.status.s = <<"A">>
                THEN lists.rejected ELSE Append(lists.rejected, result.file)]

\* PushResult that puts a file that is not a 997 on the rejected list
PushResult_NonAckRejected(result, lists) ==
  IF result.is997
  THEN [payload |-> Append(lists.payload, result.file),
        accepted |-> IF ~result.status.undef /\ result.status.s = <<"A">>
                     THEN Append(lists.accepted, result.file) ELSE lists.accepted,
        rejected |-> IF ~result.status.undef /\ result.status.s = <<"A">>
                     THEN lists.rejected ELSE Append(lists.rejected, result.file)]
  ELSE [lists EXCEPT !.rejected = Append(lists.rejected, result.file)]

\* PushResult that puts the file at the front of each list
PushResult_Prepend(result, lists) ==
  IF result.is997
  THEN [payload |-> <<result.file>> \o lists.payload,
        accepted |-> IF ~result.status.undef /\ result.status.s = <<"A">>
                     THEN <<result.file>> \o lists.accepted ELSE lists.accepted,
        rejected |-> IF ~result.status.undef /\ result.status.s = <<"A">>
                     THEN lists.rejected ELSE <<result.file>> \o lists.rejected]
  ELSE lists

\* lines 223-230: what one result adds to payload, accepted and rejected
PushResult(result, lists) ==
  IF result.is997
  THEN [payload |-> Append(lists.payload, result.file),
        accepted |-> IF IsAcceptedStatus(result.status)
                     THEN Append(lists.accepted, result.file) ELSE lists.accepted,
        rejected |-> IF IsAcceptedStatus(result.status)
                     THEN lists.rejected ELSE Append(lists.rejected, result.file)]
  ELSE lists

\* the end of one iteration of the loop of line 221
FinishFile(result) ==
  LET lists == PushResult(result, [payload |-> payload, accepted |-> accepted,
                                   rejected |-> rejected])
  IN  /\ results' = Append(results, result)
      /\ payload' = lists.payload
      /\ accepted' = lists.accepted
      /\ rejected' = lists.rejected
      /\ fileIdx' = fileIdx + 1
      /\ pc' = "loop"

\* file.body is not a string: body.indexOf raises, the catch logs and returns
ParseThrows ==
  /\ pc = "loop" /\ fileIdx < Len(sourceFiles)
  /\ Gate(sourceFile) = "throw"
  /\ log' = Append(log, FileErrorEntry(sourceFile))
  /\ FinishFile([is997 |-> FALSE, file |-> sourceFile, status |-> Undefined])
  /\ UNCHANGED <<sourceFiles, parseVars, walkerVars, tags, disposition, returned,
                 namerVars, filterVars>>

\* lines 83-85: no "ISA" in the body
ParseNoIsa ==
  /\ pc = "loop" /\ fileIdx < Len(sourceFiles)
  /\ Gate(sourceFile) = "no_isa"
  /\ FinishFile([is997 |-> FALSE, file |-> sourceFile, status |-> Undefined])
  /\ UNCHANGED <<sourceFiles, parseVars, walkerVars, log, tags, disposition, returned,
                 namerVars, filterVars>>

\* lines 94-96: ST01 is not "997"
ParseNot997 ==
  /\ pc = "loop" /\ fileIdx < Len(sourceFiles)
  /\ Gate(sourceFile) = "not_997"
  /\ FinishFile([is997 |-> FALSE, file |-> sourceFile, status |-> Undefined])
  /\ UNCHANGED <<sourceFiles, parseVars, walkerVars, log, tags, disposition, returned,
                 namerVars, filterVars>>

\* lines 81-110: the gate is passed, the envelope tags are published and the
\* walker state is created
ParseEnter ==
  /\ pc = "loop" /\ fileIdx < Len(sourceFiles)
  /\ Gate(sourceFile) = "ok"
  /\ rawSegments' = rawSegmentsOf(sourceFile.body.s)
  /\ elementSep' = elementSepOf(sourceFile.body.s)
  /\ segIdx' = 1
  /\ tags' = Append(tags, EnvelopeTags(sourceFile.body.s))
  /\ SetWalker(EnterWalker(Walker))
  /\ pc' = "walk"
  /\ UNCHANGED <<sourceFiles, fileIdx, results, batchVars, log, disposition, returned,
                 namerVars, filterVars>>

\* one iteration of the segment loop, for a segment taking branch b
WalkSegment(b) ==
  /\ pc = "walk" /\ segIdx <= Len(rawSegments)
  /\ BranchOf(rawSegments[segIdx]) = b
  /\ LET r == WalkStep(Walker, rawSegments[segIdx], elementSep, sourceFile)
     IN  /\ SetWalker(r.w)
         /\ log' = log \o r.log
         /\ tags' = tags \o r.tags
  /\ segIdx' = segIdx + 1
  /\ UNCHANGED <<sourceFiles, fileIdx, pc, rawSegments, elementSep, results,
                 batchVars, disposition, returned,
                 namerVars, filterVars>>

WalkAK1 == WalkSegment("AK1")
WalkAK2 == WalkSegment("AK2")
WalkAK3 == WalkSegment("AK3")
WalkAK4 == WalkSegment("AK4")
WalkAK5 == WalkSegment("AK5")
WalkAK9 == WalkSegment("AK9")
WalkOther == WalkSegment("other")

\* line 211 and the rest of the iteration of line 221
ParseReturn ==
  /\ pc = "walk" /\ segIdx > Len(rawSegments)
  /\ FinishFile([is997 |-> TRUE, file |-> sourceFile, status |-> Str(overallStatus)])
  /\ UNCHANGED <<sourceFiles, parseVars, walkerVars, log, tags, disposition, returned,
                 namerVars, filterVars>>

\* DispositionOf with "rejected.length >= 0" in place of "> 0"
DispositionOf_OffByOne(p, r) ==
  IF Len(p) = 0 THEN "Skipped"
  ELSE IF Len(r) >= 0 THEN "Error"
  ELSE "Success"

\* lines 233-242: which return function is called
DispositionOf(p, r) ==
  IF Len(p) = 0 THEN "Skipped"
  ELSE IF Len(r) > 0 THEN "Error"
  ELSE "Success"

\* lines 233-242: the files the return function is called with
ReturnedFiles(lists) ==
  IF Len(lists.payload) = 0 THEN <<>>
  ELSE IF Len(lists.rejected) > 0 THEN lists.rejected
  ELSE lists.accepted

RECURSIVE ProcessAll(_)
\* lines 218-231 as a function of the batch: every file parsed on its own
ProcessAll(files) ==
  IF Len(files) = 0
  THEN [payload |-> <<>>, accepted |-> <<>>, rejected |-> <<>>]
  ELSE PushResult(parse997File(files[Len(files)]),
                  ProcessAll(SubSeq(files, 1, Len(files) - 1)))

\* lines 218-242 as a function of the batch
BatchOutcome(files) ==
  LET lists == ProcessAll(files)
  IN  [disposition |-> DispositionOf(lists.payload, lists.rejected),
       returned |-> ReturnedFiles(lists)]

\* Return that does not wait for the loop to end
Return_Early(d, files) ==
  /\ pc = "loop"
  /\ DispositionOf(payload, rejected) = d
  /\ disposition' = d
  /\ returned' = files
  /\ pc' = "done"
  /\ UNCHANGED <<sourceFiles, fileIdx, parseVars, walkerVars, results, batchVars, log, tags,
                 namerVars, filterVars>>

\* lines 233-242, reached when the loop of line 221 has ended
Return(d, files) ==
  /\ pc = "loop" /\ fileIdx = Len(sourceFiles)
  /\ DispositionOf(payload, rejected) = d
  /\ disposition' = d
  /\ returned' = files
  /\ pc' = "done"
  /\ UNCHANGED <<sourceFiles, fileIdx, parseVars, walkerVars, results, batchVars, log, tags,
                 namerVars, filterVars>>

ReturnSkipped == Return("Skipped", <<>>)
ReturnError == Return("Error", rejected)
ReturnSuccess == Return("Success", accepted)

Next ==
  \/ ParseThrows
  \/ ParseNoIsa
  \/ ParseNot997
  \/ ParseEnter
  \/ WalkAK1
  \/ WalkAK2
  \/ WalkAK3
  \/ WalkAK4
  \/ WalkAK5
  \/ WalkAK9
  \/ WalkOther
  \/ ParseReturn
  \/ ReturnSkipped
  \/ ReturnError
  \/ ReturnSuccess

Spec == Init /\ [][Next]_vars

(* ------------------------------------------------------------------ *)
(* sequentially_name_files (post-processor)                             *)
(* ------------------------------------------------------------------ *)
MaxNamed == 2

Digits == <<"0", "1", "2", "3", "4", "5", "6", "7", "8", "9">>

RECURSIVE ToDecimal(_)
\* the text a template literal gives a non-negative integer
ToDecimal(n) ==
  IF n < 10 THEN <<Digits[n + 1]>>
  ELSE ToDecimal(n \div 10) \o <<Digits[(n % 10) + 1]>>

\* newFileName numbered from the 0-based index itself
newFileName_ZeroBased(index) ==
  <<"f", "i", "l", "e", "_">> \o ToDecimal(index) \o <<".", "t", "x", "t">>

\* line 4: `file_${index + 1}.txt`, index 0-based
newFileName(index) ==
  <<"f", "i", "l", "e", "_">> \o ToDecimal(index + 1) \o <<".", "t", "x", "t">>

\* line 5: file.file_name is truthy
HasFileName(file) == ~file.file_name.undef /\ file.file_name.s # <<>>

\* lines 3-12: the callback of lodash.map for one file
NameFile(file, index) ==
  [file |-> [file EXCEPT !.file_name = Str(newFileName(index))],
   log |-> IF HasFileName(file)
           THEN <<[level |-> "info", kind |-> "Overwriting file_name",
                   from |-> file.file_name.s, to |-> newFileName(index)]>>
           ELSE <<>>]

TestTxt == <<"t", "e", "s", "t", ".", "t", "x", "t">>
File2Txt == <<"f", "i", "l", "e", "_", "2", ".", "t", "x", "t">>
\* destination files: with no file_name, an empty one, or one to overwrite
DestinationFileKinds ==
  [type : {"file"}, body : {"test body", "test body 2"},
   file_name : {Undefined, Str(<<>>), Str(TestTxt), Str(File2Txt)}]

RECURSIVE ListsOf(_, _)
\* all sequences of at most n members of S
ListsOf(S, n) ==
  IF n = 0 THEN {<<>>}
  ELSE ListsOf(S, n - 1) \cup { Append(q, f) : q \in { r \in ListsOf(S, n - 1) : Len(r) = n - 1 }, f \in S }

\* a list long enough for two-digit names
LongList ==
  [i \in 1..11 |->
     [type |-> "file", body |-> "test body",
      file_name |-> IF i % 3 = 0 THEN Str(TestTxt) ELSE Undefined]]

InitNamer ==
  /\ destinationFiles \in ListsOf(DestinationFileKinds, MaxNamed) \cup {LongList}
  /\ nameIndex = 0 /\ namedFiles = <<>> /\ namerLog = <<>> /\ namerResult = NotRun
  /\ sourceFiles = <<>> /\ AckStart
  /\ FilterIdle

MapFile ==
  /\ nameIndex < Len(destinationFiles)
  /\ LET r == NameFile(destinationFiles[nameIndex + 1], nameIndex)
     IN  /\ namedFiles' = Append(namedFiles, r.file)
         /\ namerLog' = namerLog \o r.log
  /\ nameIndex' = nameIndex + 1
  /\ UNCHANGED <<destinationFiles, namerResult, ackVars, filterVars>>

\* the callback for a file that has a file_name
MapNamed ==
  /\ nameIndex < Len(destinationFiles)
  /\ HasFileName(destinationFiles[nameIndex + 1])
  /\ MapFile
\* the callback for a file that has none
MapUnnamed ==
  /\ nameIndex < Len(destinationFiles)
  /\ ~HasFileName(destinationFiles[nameIndex + 1])
  /\ MapFile

\* line 13: the script's value
NamerReturn ==
  /\ nameIndex = Len(destinationFiles) /\ ~namerResult.done
  /\ namerResult' = [done |-> TRUE, value |-> namedFiles]
  /\ UNCHANGED <<destinationFiles, nameIndex, namedFiles, namerLog, ackVars, filterVars>>

NextNamer ==
  \/ MapNamed
  \/ MapUnnamed
  \/ NamerReturn

SpecNamer == InitNamer /\ [][NextNamer]_vars

(* ------------------------------------------------------------------ *)
(* xpath_file_filter (pre-processor)                                    *)
(* An XML body is the outcome xmldom gives it: whether it parses, and    *)
(* the texts of its //event/code elements in document order.             *)
(* ------------------------------------------------------------------ *)
MaxFiltered == 2

ArrivalPath == "//event/code[text()=\"Arrival\"]"
DeparturePath == "//event/code[text()=\"Departure\"]"
xpathsToMatch == <<ArrivalPath, DeparturePath>>

\* xpath.select(path, xml): the code elements whose text the path asks for
Select(path, xml) ==
  LET text == IF path = ArrivalPath THEN "Arrival" ELSE "Departure"
  IN  SelectSeq(xml.codes, LAMBDA c : c = text)

\* parseXml that returns null without a warning
parseXml_Silent(file, index) ==
  IF file.body.wellFormed
  THEN [xml |-> [null |-> FALSE, codes |-> file.body.codes], log |-> <<>>]
  ELSE [xml |-> [null |-> TRUE, codes |-> <<>>], log |-> <<>>]

\* parseXml: the document, or null and a warning when the parser raises
parseXml(file, index) ==
  IF file.body.wellFormed
  THEN [xml |-> [null |-> FALSE, codes |-> file.body.codes], log |-> <<>>]
  ELSE [xml |-> [null |-> TRUE, codes |-> <<>>],
        log |-> <<[level |-> "warning", kind |-> "could not be parsed as XML",
                   file_name |-> file.file_name, index |-> index]>>]

\* lodash.every stops at the first path that selects nothing: its position in
\* xpathsToMatch, 0 when every path selects something
FirstUnsatisfied(xml) ==
  LET failing == { k \in 1..Len(xpathsToMatch) : Len(Select(xpathsToMatch[k], xml)) = 0 }
  IN  IF failing = {} THEN 0 ELSE CHOOSE k \in failing : \A j \in failing : k <= j

\* the predicate lodash.filter calls for one file
FilterFile(file, index) ==
  LET parsed == parseXml(file, index)
      k == FirstUnsatisfied(parsed.xml)
  IN  IF parsed.xml.null THEN [keep |-> FALSE, log |-> parsed.log]
      ELSE IF k # 0
      THEN [keep |-> FALSE,
            log |-> <<[level |-> "info", kind |-> "did not satisfy xpath",
                       file_name |-> file.file_name, index |-> index,
                       path |-> xpathsToMatch[k]]>>]
      ELSE [keep |-> TRUE,
            log |-> <<[level |-> "info", kind |-> "satisfied all xpaths",
                       file_name |-> file.file_name, index |-> index]>>]

\* bodies: '<bad', and event documents with neither, one or both codes
XmlBodies ==
  {[wellFormed |-> FALSE, codes |-> <<>>],
   [wellFormed |-> TRUE, codes |-> <<>>],
   [wellFormed |-> TRUE, codes |-> <<"Arrival">>],
   [wellFormed |-> TRUE, codes |-> <<"Departure">>],
   [wellFormed |-> TRUE, codes |-> <<"Arrival", "Departure">>]}
XmlFileKinds == [type : {"file"}, file_name : {"file_1.xml", "file_2.xml"}, body : XmlBodies]

InitFilter ==
  /\ xmlSourceFiles \in ListsOf(XmlFileKinds, MaxFiltered)
  /\ filterIndex = 0 /\ kept = <<>> /\ filterLog = <<>> /\ filterResult = NotRun
  /\ sourceFiles = <<>> /\ AckStart
  /\ NamerIdle

\* one call of the predicate, for a file whose outcome is keep and whose
\* message is of the given kind
FilterStep(kind) ==
  /\ filterIndex < Len(xmlSourceFiles)
  /\ LET r == FilterFile(xmlSourceFiles[filterIndex + 1], filterIndex)
     IN  /\ (kind = "unparsable") <=> parseXml(xmlSourceFiles[filterIndex + 1], filterIndex).xml.null
         /\ (kind = "satisfied") <=> r.keep
         /\ kept' = IF r.keep THEN Append(kept, xmlSourceFiles[filterIndex + 1]) ELSE kept
         /\ filterLog' = filterLog \o r.log
  /\ filterIndex' = filterIndex + 1
  /\ UNCHANGED <<xmlSourceFiles, filterResult, ackVars, namerVars>>

FilterUnparsable == FilterStep("unparsable")
FilterUnsatisfied == FilterStep("unsatisfied")
FilterSatisfied == FilterStep("satisfied")

\* the script's value
FilterReturn ==
  /\ filterIndex = Len(xmlSourceFiles) /\ ~filterResult.done
  /\ filterResult' = [done |-> TRUE, value |-> kept]
  /\ UNCHANGED <<xmlSourceFiles, filterIndex, kept, filterLog, ackVars, namerVars>>

NextFilter ==
  \/ FilterUnparsable
  \/ FilterUnsatisfied
  \/ FilterSatisfied
  \/ FilterReturn

SpecFilter == InitFilter /\ [][NextFilter]_vars

(* ------------------------------------------------------------------ *)
(* The 997 script run to completion                                     *)
(* ------------------------------------------------------------------ *)
MaxLiveFiles == 2

\* one file for every way through parse997File
LiveCatalogue ==
  {NoBodyFile, TextFile, PurchaseOrderFile, AcceptedFile, RejectedFile, ShortFieldsFile}

InitLive ==
  /\ sourceFiles \in ListsOf(LiveCatalogue, MaxLiveFiles)
  /\ AckStart
  /\ NamerIdle /\ FilterIdle

\* the script is synchronous and single-threaded: the step that can be taken
\* is taken
LiveSpec == InitLive /\ [][Next]_vars /\ WF_vars(Next)

(* ------------------------------------------------------------------ *)
(* Vocabulary of the properties                                         *)
(* ------------------------------------------------------------------ *)
Done == pc = "done"
Range(q) == { q[i] : i \in 1..Len(q) }
FilePositions == 1..Len(sourceFiles)

RECURSIVE FilesAt(_)
\* the input files at the positions of S, in input order
FilesAt(S) ==
  IF S = {} THEN <<>>
  ELSE LET m == CHOOSE i \in S : \A j \in S : i <= j
       IN  <<sourceFiles[m]>> \o FilesAt(S \ {m})

RecognizedPositions == { i \in FilePositions : results[i].is997 }
RejectedPositions ==
  { i \in RecognizedPositions : results[i].status.undef \/ results[i].status.s # <<"A">> }

\* the file is in none of the lists a return function can be called with
InNoPayload(file) ==
  /\ file \notin Range(payload)
  /\ file \notin Range(accepted)
  /\ file \notin Range(rejected)
  /\ file \notin Range(returned)

\* a string body without "ISA", or whose first ST segment does not carry "997"
GateRejects(file) ==
  /\ ~file.body.undef
  /\ \/ IndexOf(file.body.s, <<"I", "S", "A">>) = -1
     \/ st01Of(file.body.s) # <<"9", "9", "7">>

\* element 1 of every AK9 segment of a file, in segment order
Ak9CodesIn(segments, sep) ==
  LET segs == SelectSeq(segments, LAMBDA sg : StartsWith(sg, <<"A", "K", "9">>))
  IN  [k \in 1..Len(segs) |-> ElemOr(Split(segs[k], sep), 1, <<>>)]
Ak9CodesOf(file) == Ak9CodesIn(rawSegmentsOf(file.body.s), elementSepOf(file.body.s))

NonAccepted(code) == ToUpperCase(code) # <<"A">>

\* the first non-accepted code of a list of AK9 codes, "A" when there is none
FirstError(codes) ==
  LET bad == { k \in 1..Len(codes) : NonAccepted(codes[k]) }
  IN  IF bad = {} THEN <<"A">>
      ELSE codes[CHOOSE k \in bad : \A j \in bad : k <= j]

\* number of error-level log lines that name the file
ErrorLinesNaming(name) ==
  Cardinality({ k \in 1..Len(log) :
                  /\ log[k].level = "error"
                  /\ log[k].kind \in {"Error processing file", "Not Accepted"}
                  /\ log[k].file_name = name })
FilesNamed(name) == Cardinality({ i \in FilePositions : sourceFiles[i].file_name = name })

(* ------------------------------------------------------------------ *)
(* Batch disposition                                                    *)
(* ------------------------------------------------------------------ *)
\* C1: the processor returns Skipped, with an empty payload, exactly when
\* parse997File recognized none of the batch's files as a 997 (the empty
\* batch included).
C1_SkippedIffNoneRecognized ==
  Done =>
    /\ (disposition = "Skipped") <=> (\A i \in FilePositions : ~parse997File(sourceFiles[i]).is997)
    /\ disposition = "Skipped" => returned = <<>>

C1_Witness ==
  /\ Done /\ disposition = "Skipped" /\ returned = <<>>
  /\ Len(sourceFiles) = 2
  /\ \A i \in FilePositions : ~results[i].is997

\* C2: when some recognized 997 has a status other than "A" the processor
\* returns Error, and the payload is exactly the recognized files whose
\* status is not "A", in input order.
C2_ErrorCarriesRejected ==
  (Done /\ RejectedPositions # {}) =>
    /\ disposition = "Error"
    /\ returned = FilesAt(RejectedPositions)

C2_Witness ==
  /\ Done /\ disposition = "Error"
  /\ RecognizedPositions \ RejectedPositions # {}
  /\ Len(returned) = 1

\* C3: when some file is a recognized 997 and every recognized 997 has status
\* "A" the processor returns Success with exactly the recognized files, in
\* input order; files that are not 997s are not in the payload.
C3_SuccessCarriesAccepted ==
  (Done /\ RecognizedPositions # {} /\ RejectedPositions = {}) =>
    /\ disposition = "Success"
    /\ returned = FilesAt(RecognizedPositions)

C3_Witness ==
  /\ Done /\ disposition = "Success"
  /\ Len(sourceFiles) = 2 /\ Len(returned) = 1
  /\ \E i \in FilePositions : Gate(sourceFiles[i]) = "no_isa"

\* C4: a file the gate rejects (no "ISA", or ST01 other than "997") is in no
\* payload, and the outcome of the batch is the outcome of the batch without
\* such files.
C4_NonAckFilesIgnored ==
  Done =>
    /\ \A i \in FilePositions : GateRejects(sourceFiles[i]) => InNoPayload(sourceFiles[i])
    /\ [disposition |-> disposition, returned |-> returned]
         = BatchOutcome(FilesAt({ i \in FilePositions : ~GateRejects(sourceFiles[i]) }))

C4_Witness ==
  /\ Done /\ disposition # "Skipped"
  /\ \E i \in FilePositions :
       /\ GateRejects(sourceFiles[i])
       /\ IndexOf(sourceFiles[i].body.s, <<"I", "S", "A">>) # -1

(* ------------------------------------------------------------------ *)
(* Per-file classification                                              *)
(* ------------------------------------------------------------------ *)
\* the file is in the rejected payload only: the batch ends in Error with
\* the file in its payload, and the file is not in the accepted list
OnlyInErrorPayload(file) ==
  /\ disposition = "Error"
  /\ file \in Range(returned)
  /\ file \in Range(rejected)
  /\ file \notin Range(accepted)

\* C5 as stated: a recognized 997 with an AK9 code that is not the string "A"
\* is in the Error payload only.
C5_AsStated ==
  Done =>
    \A i \in RecognizedPositions :
      (\E k \in 1..Len(Ak9CodesOf(sourceFiles[i])) : Ak9CodesOf(sourceFiles[i])[k] # <<"A">>)
        => OnlyInErrorPayload(sourceFiles[i])

\* C5: a recognized 997 with an AK9 code whose upper-case form is not "A" is
\* in the Error payload only, never in the accepted payload.
C5_NonAcceptedOnlyInError ==
  Done =>
    \A i \in RecognizedPositions :
      (\E k \in 1..Len(Ak9CodesOf(sourceFiles[i])) : NonAccepted(Ak9CodesOf(sourceFiles[i])[k]))
        => OnlyInErrorPayload(sourceFiles[i])

C5_Witness ==
  /\ Done
  /\ \E i \in RecognizedPositions :
       /\ Ak9CodesOf(sourceFiles[i]) = <<<<"E">>>>
       /\ OnlyInErrorPayload(sourceFiles[i])

\* well-formed accepted 997s: ISA, GS, ST*997, AK1, one AK9 with code "A", SE,
\* with segments ended by "~", "~" LF or "~" CR LF
WellFormedAcceptedBodies ==
  { Interchange(<<"*">>, <<"~">>, eol, <<"9", "9", "7">>,
                <<Ak1Seg, Ak9Seg(<<"A">>)>>) : eol \in {<<>>, <<"\n">>, <<"\r", "\n">>} }

\* C6: every well-formed accepted 997, bare or CR/LF terminated, is recognized
\* as a 997 and is in the Success payload, unchanged.
C6_AsStated ==
  Done =>
    \A i \in FilePositions :
      (~sourceFiles[i].body.undef /\ sourceFiles[i].body.s \in WellFormedAcceptedBodies)
        => /\ results[i].is997
           /\ sourceFiles[i] \in Range(accepted)
           /\ disposition = "Success" => sourceFiles[i] \in Range(returned)
           /\ disposition # "Skipped"

\* C7: in one file's walk the overall status is the code of the first
\* non-accepted AK9 met so far ("A" while there is none), the status parse997File
\* returns is the first non-accepted AK9 code of the file, and once a
\* non-accepted code is latched no later segment of the walk changes it.
StatusIsFirstError ==
  /\ pc = "walk" =>
       overallStatus = FirstError(Ak9CodesIn(SubSeq(rawSegments, 1, segIdx - 1), elementSep))
  /\ \A i \in 1..Len(results) :
       results[i].is997 => results[i].status = Str(FirstError(Ak9CodesOf(sourceFiles[i])))

LatchStable ==
  (pc = "walk" /\ overallStatus # <<"A">>) =>
    /\ pc' = "walk" => overallStatus' = overallStatus
    /\ pc' = "loop" => results'[Len(results')].status = Str(overallStatus)

C7_FirstErrorWins == [][LatchStable]_vars /\ []StatusIsFirstError

C7_Witness ==
  /\ pc = "walk" /\ segIdx > Len(rawSegments)
  /\ Ak9CodesOf(sourceFile) = <<<<"E">>, <<"R">>>>
  /\ overallStatus = <<"E">>

\* C8: a file that passes the gate and has no AK9 segment is classified
\* is997 = true with status "A", and no exception is logged for it.
C8_NoAk9DefaultsToAccepted ==
  \A i \in 1..Len(results) :
    (Gate(sourceFiles[i]) = "ok" /\ Ak9CodesOf(sourceFiles[i]) = <<>>)
      => /\ results[i].is997
         /\ results[i].status = Str(<<"A">>)
         /\ \A k \in 1..Len(log) :
              log[k].kind = "Error processing file" => log[k].file_name # sourceFiles[i].file_name

C8_Witness ==
  /\ Done /\ disposition = "Success"
  /\ \E i \in FilePositions :
       /\ Gate(sourceFiles[i]) = "ok" /\ Ak9CodesOf(sourceFiles[i]) = <<>>
       /\ sourceFiles[i] \in Range(returned)
       /\ \E k \in 1..Len(rawSegmentsOf(sourceFiles[i].body.s)) :
            StartsWith(rawSegmentsOf(sourceFiles[i].body.s)[k], <<"A", "K", "1">>)

(* ------------------------------------------------------------------ *)
(* Failures of one file                                                 *)
(* ------------------------------------------------------------------ *)
\* C9: a file whose processing raises is absorbed by the catch: one
\* error-level line names it, it is classified is997 = false and is in no
\* payload, and every file of the batch gets the result it gets on its own,
\* the outcome being that of the batch without the failing files.
C9_ExceptionAbsorbed ==
  Done =>
    /\ Len(results) = Len(sourceFiles)
    /\ \A i \in FilePositions :
         /\ results[i] = parse997File(sourceFiles[i])
         /\ Gate(sourceFiles[i]) = "throw" =>
              /\ ~results[i].is997
              /\ InNoPayload(sourceFiles[i])
              /\ ErrorLinesNaming(sourceFiles[i].file_name) = FilesNamed(sourceFiles[i].file_name)
    /\ [disposition |-> disposition, returned |-> returned]
         = BatchOutcome(FilesAt({ i \in FilePositions : Gate(sourceFiles[i]) # "throw" }))

C9_Witness ==
  /\ Done /\ Len(sourceFiles) = 2
  /\ Gate(sourceFiles[1]) = "throw"
  /\ ErrorLinesNaming(sourceFiles[1].file_name) = 1
  /\ results[2].is997 /\ results[2].status = Str(<<"R">>)
  /\ disposition = "Error"

\* the content from the "ISA" marker on is shorter than the 106-character window
TruncatedIsa(file) ==
  /\ ~file.body.undef
  /\ IndexOf(file.body.s, <<"I", "S", "A">>) # -1
  /\ Len(file.body.s) - IndexOf(file.body.s, <<"I", "S", "A">>) < 106

\* C10: a file with a truncated ISA segment is in no payload, one error-level
\* line names it, and the outcome is that of the batch without such files.
C10_AsStated ==
  Done =>
    /\ \A i \in FilePositions :
         TruncatedIsa(sourceFiles[i]) =>
           /\ InNoPayload(sourceFiles[i])
           /\ ErrorLinesNaming(sourceFiles[i].file_name) = FilesNamed(sourceFiles[i].file_name)
    /\ [disposition |-> disposition, returned |-> returned]
         = BatchOutcome(FilesAt({ i \in FilePositions : ~TruncatedIsa(sourceFiles[i]) }))

(* ------------------------------------------------------------------ *)
(* Error descriptions                                                   *)
(* ------------------------------------------------------------------ *)
IsTransaction(entry) == entry.kind = "Transaction"
IsGroupResult(entry) == entry.kind = "Functional Group Result"

\* every segment error the walk holds or has logged
SegmentErrorsSeen ==
  Range(currentSegmentErrors)
    \cup UNION { Range(log[k].segmentErrors) : k \in { j \in 1..Len(log) : IsTransaction(log[j]) } }

\* the descriptions produced so far, by the table they were looked up in
Ak3Descriptions == { e.segError : e \in SegmentErrorsSeen }
Ak4Descriptions == UNION { { x.error : x \in Range(e.elementErrors) } : e \in SegmentErrorsSeen }
Ak5Descriptions == { log[k].ackDesc : k \in { j \in 1..Len(log) : IsTransaction(log[j]) } }
Ak9Descriptions == { log[k].ackDesc : k \in { j \in 1..Len(log) : IsGroupResult(log[j]) } }

\* the documented descriptions, by code
DocumentedAk3 ==
  (<<"1">> :> "Unrecognized segment ID") @@ (<<"2">> :> "Unexpected segment") @@
  (<<"3">> :> "Mandatory segment missing") @@ (<<"4">> :> "Loop occurs over maximum times") @@
  (<<"5">> :> "Segment exceeds maximum use") @@
  (<<"6">> :> "Segment not in defined transaction set") @@
  (<<"7">> :> "Segment not in proper sequence") @@
  (<<"8">> :> "Segment has data element errors")
DocumentedAk4 ==
  (<<"1">> :> "Mandatory data element missing") @@
  (<<"2">> :> "Conditional required data element missing") @@
  (<<"3">> :> "Too many data elements") @@ (<<"4">> :> "Data element too short") @@
  (<<"5">> :> "Data element too long") @@ (<<"6">> :> "Invalid character in data element") @@
  (<<"7">> :> "Invalid code value") @@ (<<"8">> :> "Invalid date") @@
  (<<"9">> :> "Invalid time") @@ (<<"1", "0">> :> "Exclusion condition violated") @@
  (<<"1", "2">> :> "Too many repetitions") @@ (<<"1", "3">> :> "Too many components") @@
  (<<"1", "6">> :> "Composite data structure contains excess trailing delimiters")
DocumentedAk5 ==
  (<<"A">> :> "Accepted") @@ (<<"E">> :> "Accepted but errors were noted") @@
  (<<"M">> :> "Rejected, message authentication code (MAC) failed") @@
  (<<"R">> :> "Rejected") @@ (<<"W">> :> "Rejected, assurance failed validity tests") @@
  (<<"X">> :> "Rejected, content after decryption could not be analyzed")
DocumentedAk9 ==
  (<<"A">> :> "Accepted") @@ (<<"E">> :> "Accepted but errors were noted") @@
  (<<"P">> :> "Partially accepted") @@ (<<"R">> :> "Rejected")

\* the description is the documented one
IsDocumented(d, documented) ==
  d.known /\ d.code \in DOMAIN documented /\ d.text = documented[d.code]
\* the description is the text prefix followed by the code
IsFallback(d, prefix) == ~d.known /\ ~d.inherited /\ d.text = prefix

\* every description is the documented one when its code is in the table and
\* the fallback prefix followed by the code when it is not
DescribedBy(descriptions, documented, prefix) ==
  \A d \in descriptions :
    IF d.code \in DOMAIN documented THEN IsDocumented(d, documented) ELSE IsFallback(d, prefix)

\* as DescribedBy, for the codes that do not name an inherited property
DescribedByOwn(descriptions, documented, prefix) ==
  \A d \in descriptions :
    IF d.code \in DOMAIN documented THEN IsDocumented(d, documented)
    ELSE d.code \notin ObjectPrototypeKeys => IsFallback(d, prefix)

AtSegment(tag) ==
  pc = "walk" /\ segIdx <= Len(rawSegments) /\ StartsWith(rawSegments[segIdx], tag)
\* the segment loop has just processed a segment that starts with tag
AfterSegment(tag) ==
  pc = "walk" /\ segIdx > 1 /\ StartsWith(rawSegments[segIdx - 1], tag)
\* data element n of the segment the loop is about to process
ElementAt(n) == ElemOr(Split(rawSegments[segIdx], elementSep), n, <<>>)
\* the step appends exactly one entry to the log
LogsOne == Len(log') = Len(log) + 1 /\ SubSeq(log', 1, Len(log)) = log
LastLogged == log'[Len(log')]

\* C12: an AK4 met while no SegmentError is current records no element error,
\* writes no log line and no tag, and the walk goes on to the next segment
\* with its state unchanged.
Ak4WithoutSegmentDropped ==
  (AtSegment(<<"A", "K", "4">>) /\ currentSegment = 0) =>
    /\ UNCHANGED <<currentDocType, currentControlNumber, currentSegmentErrors,
                   currentSegment, overallStatus, ak102>>
    /\ UNCHANGED <<log, tags, results, payload, accepted, rejected>>
    /\ pc' = "walk" /\ segIdx' = segIdx + 1

C12_OrphanAk4Dropped == [][Ak4WithoutSegmentDropped]_vars

C12_Witness ==
  /\ AfterSegment(<<"A", "K", "4">>)
  /\ segIdx > 2 /\ StartsWith(rawSegments[segIdx - 2], <<"A", "K", "2">>)
  /\ currentSegment = 0 /\ currentSegmentErrors = <<>>
  /\ currentDocType = <<"8", "1", "0">>
  /\ \A k \in 1..Len(log) : ~IsTransaction(log[k])

\* C13: an AK5 that closes an open transaction writes exactly one message, the
\* one of that transaction, to the error log when its code is exactly "R" and
\* to the info log otherwise.
Ak5LogsOnce ==
  (AtSegment(<<"A", "K", "5">>) /\ currentDocType # <<>>) =>
    /\ LogsOne
    /\ IsTransaction(LastLogged)
    /\ LastLogged.docType = currentDocType
    /\ LastLogged.controlNumber = currentControlNumber
    /\ LastLogged.level = IF ElementAt(1) = <<"R">> THEN "error" ELSE "info"

C13_Ak5Routing == [][Ak5LogsOnce]_vars

C13_Witness ==
  /\ AfterSegment(<<"A", "K", "5">>)
  /\ \E k \in 1..Len(log) :
       IsTransaction(log[k]) /\ log[k].level = "info" /\ log[k].ackDesc.code = <<"M">>
  /\ \E k \in 1..Len(log) :
       IsTransaction(log[k]) /\ log[k].level = "info" /\ log[k].ackDesc.code = <<"E">>

\* C14 as stated: after every AK5 the transaction-scoped state is empty.
C14_AsStated ==
  AfterSegment(<<"A", "K", "5">>) =>
    /\ currentDocType = <<>>
    /\ currentControlNumber = <<>>
    /\ currentSegmentErrors = <<>>
    /\ currentSegment = 0

\* positions of the segments of the current file, among those already
\* processed, that start with tag
ProcessedWith(tag) == { p \in 1..(segIdx - 1) : StartsWith(rawSegments[p], tag) }
\* position of the last AK2 already processed, 0 when there is none
LastAk2 ==
  IF ProcessedWith(<<"A", "K", "2">>) = {} THEN 0
  ELSE CHOOSE p \in ProcessedWith(<<"A", "K", "2">>) :
         \A q \in ProcessedWith(<<"A", "K", "2">>) : q <= p
ElementOf(p, n) == ElemOr(Split(rawSegments[p], elementSep), n, <<>>)

RECURSIVE Ascending(_)
\* the numbers of a finite set in increasing order
Ascending(S) ==
  IF S = {} THEN <<>>
  ELSE LET m == CHOOSE i \in S : \A j \in S : i <= j
       IN  <<m>> \o Ascending(S \ {m})

TotalElementErrors(segmentErrors) ==
  LET RECURSIVE Sum(_)
      Sum(n) == IF n = 0 THEN 0 ELSE Len(segmentErrors[n].elementErrors) + Sum(n - 1)
  IN  Sum(Len(segmentErrors))

\* C15: an AK2 writes nothing and starts from an empty transaction, and the
\* only transaction messages ever written are written at an AK5, for the
\* transaction of the last AK2 before it and with errors of segments that
\* follow that AK2: a transaction left open by an earlier AK2 is never logged.
Ak2Discards ==
  AtSegment(<<"A", "K", "2">>) =>
    /\ log' = log
    /\ currentDocType' = ElementAt(1)
    /\ currentControlNumber' = ElementAt(2)
    /\ currentSegmentErrors' = <<>>
    /\ currentSegment' = 0

OnlyLatestTransactionLogged ==
  \A k \in (Len(log) + 1)..Len(log') :
    IsTransaction(log'[k]) =>
      /\ AtSegment(<<"A", "K", "5">>)
      /\ LastAk2 # 0
      /\ log'[k].docType = ElementOf(LastAk2, 1)
      /\ log'[k].controlNumber = ElementOf(LastAk2, 2)
      /\ Len(log'[k].segmentErrors)
           = Cardinality({ p \in ProcessedWith(<<"A", "K", "3">>) : p > LastAk2 })
      /\ TotalElementErrors(log'[k].segmentErrors)
           <= Cardinality({ p \in ProcessedWith(<<"A", "K", "4">>) : p > LastAk2 })

C15_Ak2DiscardsOpenTransaction == [][Ak2Discards /\ OnlyLatestTransactionLogged]_vars

C15_Witness ==
  /\ AfterSegment(<<"A", "K", "5">>)
  /\ Cardinality(ProcessedWith(<<"A", "K", "2">>)) = 2
  /\ \E p \in ProcessedWith(<<"A", "K", "3">>) : p < LastAk2
  /\ Cardinality({ k \in 1..Len(log) : IsTransaction(log[k]) }) = 1
  /\ IsTransaction(log[Len(log)])
  /\ log[Len(log)].docType = <<"8", "1", "0">>
  /\ log[Len(log)].segmentErrors = <<>>

\* what a segment error and its element errors say, without the description texts
ShapeOf(e) ==
  [segId |-> e.segId, segPos |-> e.segPos, loopId |-> e.loopId, code |-> e.segError.code,
   elements |-> [i \in 1..Len(e.elementErrors) |->
                   [pos |-> e.elementErrors[i].pos,
                    code |-> e.elementErrors[i].error.code,
                    value |-> e.elementErrors[i].value]]]

\* the segment errors of the AK3 segments at positions from+1 .. segIdx-1, each
\* with the element errors of the AK4 segments between it and the next AK3
SegmentErrorsAfter(from) ==
  LET ak3s == Ascending({ p \in ProcessedWith(<<"A", "K", "3">>) : p > from })
      until(k) == IF k < Len(ak3s) THEN ak3s[k + 1] ELSE segIdx
      ak4s(k) == Ascending({ p \in ProcessedWith(<<"A", "K", "4">>) :
                               p > ak3s[k] /\ p < until(k) })
  IN  [k \in 1..Len(ak3s) |->
         [segId |-> ElementOf(ak3s[k], 1), segPos |-> ElementOf(ak3s[k], 2),
          loopId |-> ElementOf(ak3s[k], 3), code |-> ElementOf(ak3s[k], 4),
          elements |-> [i \in 1..Len(ak4s(k)) |->
                          [pos |-> IF ElementOf(ak4s(k)[i], 2) # <<>>
                                   THEN ElementOf(ak4s(k)[i], 2) ELSE ElementOf(ak4s(k)[i], 1),
                           code |-> ElementOf(ak4s(k)[i], 3),
                           value |-> ElementOf(ak4s(k)[i], 4)]]]]

\* C16: the message written at an AK5 lists, in stream order, exactly the
\* segment errors of the AK3 segments between the transaction's AK2 and this
\* AK5, each with exactly the element errors of the AK4 segments that follow
\* it before the next AK3; and while a segment error is held, the element
\* errors it already has are neither moved nor altered.
MessageListsItsErrors ==
  (AtSegment(<<"A", "K", "5">>) /\ currentDocType # <<>>) =>
    /\ LogsOne
    /\ [k \in 1..Len(LastLogged.segmentErrors) |-> ShapeOf(LastLogged.segmentErrors[k])]
         = SegmentErrorsAfter(LastAk2)

ElementErrorsKept ==
  (pc = "walk" /\ pc' = "walk" /\ Len(currentSegmentErrors') >= Len(currentSegmentErrors)) =>
    \A k \in 1..Len(currentSegmentErrors) :
      /\ [currentSegmentErrors'[k] EXCEPT !.elementErrors = <<>>]
           = [currentSegmentErrors[k] EXCEPT !.elementErrors = <<>>]
      /\ Len(currentSegmentErrors'[k].elementErrors) >= Len(currentSegmentErrors[k].elementErrors)
      /\ SubSeq(currentSegmentErrors'[k].elementErrors, 1,
                Len(currentSegmentErrors[k].elementErrors))
           = currentSegmentErrors[k].elementErrors

C16_ErrorsAttachedToTransaction == [][MessageListsItsErrors /\ ElementErrorsKept]_vars

C16_Witness ==
  /\ AfterSegment(<<"A", "K", "5">>)
  /\ Len(log) > 0
  /\ IsTransaction(log[Len(log)])
  /\ Len(log[Len(log)].segmentErrors) = 2
  /\ Len(log[Len(log)].segmentErrors[1].elementErrors) = 2
  /\ Len(log[Len(log)].segmentErrors[2].elementErrors) = 1
  /\ log[Len(log)].segmentErrors[1].segId = <<"N", "1">>
  /\ log[Len(log)].segmentErrors[2].segId = <<"R", "E", "F">>
  /\ log[Len(log)].segmentErrors[1].elementErrors[2].pos = <<"3">>

\* the entries the step adds to the log
NewLogPositions == (Len(log) + 1)..Len(log')

\* C17: at an AK9 an error-level message is written exactly when its code is
\* the first non-accepted AK9 code of the file, and at least one info-level
\* message is written at every AK9; no other entry of the log is touched.
Ak9Logging ==
  AtSegment(<<"A", "K", "9">>) =>
    LET earlier == Ak9CodesIn(SubSeq(rawSegments, 1, segIdx - 1), elementSep)
        first == NonAccepted(ElementAt(1))
                   /\ \A k \in 1..Len(earlier) : ~NonAccepted(earlier[k])
    IN  /\ Len(log') > Len(log) /\ SubSeq(log', 1, Len(log)) = log
        /\ Cardinality({ k \in NewLogPositions : log'[k].level = "error" })
             = IF first THEN 1 ELSE 0
        /\ Cardinality({ k \in NewLogPositions : log'[k].level = "info" }) >= 1

C17_Ak9Logging == [][Ak9Logging]_vars

C17_Witness ==
  /\ AfterSegment(<<"A", "K", "9">>)
  /\ Ak9CodesIn(SubSeq(rawSegments, 1, segIdx - 1), elementSep) = <<<<"R">>, <<"E">>, <<"A">>>>
  /\ Cardinality({ k \in 1..Len(log) : log[k].kind = "Not Accepted" }) = 1
  /\ Cardinality({ k \in 1..Len(log) : log[k].kind = "Functional Group Result" }) = 3
  /\ Cardinality({ k \in 1..Len(log) : log[k].kind = "Group Acknowledged" }) = 2

\* C18: the result of every file is the result parse997File gives for that
\* file alone, whatever files were processed before it in the batch.
C18_NoStateAcrossFiles ==
  /\ Len(results) = fileIdx
  /\ \A i \in 1..Len(results) :
       /\ results[i].is997 = parse997File(sourceFiles[i]).is997
       /\ results[i].status = parse997File(sourceFiles[i]).status

C18_Witness ==
  /\ Done /\ Len(sourceFiles) = 2
  /\ results[1].is997 /\ results[1].status = Str(<<"R">>)
  /\ results[2].is997 /\ results[2].status = Str(<<"A">>)
  /\ Ak9CodesOf(sourceFiles[2]) # <<>>

\* the segment terminator the content calls for: the character at offset 105
\* of the window, with the character after it when that is CR or LF
TerminatorCalledFor(body) ==
  LET at == IndexOf(body, <<"I", "S", "A">>)
  IN  IF at + 106 < Len(body) /\ body[at + 107] \in {"\r", "\n"}
      THEN <<body[at + 106], body[at + 107]>>
      ELSE <<body[at + 106]>>

\* C19 as stated: for a file with a full ISA window the element separator is
\* the character at offset 3 and the segment terminator the character at
\* offset 105, extended by a following CR or LF.
C19_AsStated ==
  \A i \in 1..Len(results) :
    LET body == sourceFiles[i].body.s
        at == IndexOf(body, <<"I", "S", "A">>)
        found == parseDelimiters(Substr(body, at, 106))
    IN  (~sourceFiles[i].body.undef /\ at # -1 /\ Len(body) - at >= 106) =>
          /\ found.elementSep = Str(<<body[at + 4]>>)
          /\ found.segmentTerminator = Str(TerminatorCalledFor(body))

\* C20: a file the gate rejects is passed over without a log line and without
\* a tag.
GateRejectIsSilent ==
  (pc = "loop" /\ fileIdx < Len(sourceFiles) /\ GateRejects(sourceFile)) =>
    /\ log' = log
    /\ tags' = tags
    /\ fileIdx' = fileIdx + 1

C20_GateRejectIsSilent == [][GateRejectIsSilent]_vars

C20_Witness ==
  /\ Done /\ Len(sourceFiles) = 2
  /\ GateRejects(sourceFiles[1]) /\ IndexOf(sourceFiles[1].body.s, <<"I", "S", "A">>) = -1
  /\ GateRejects(sourceFiles[2]) /\ IndexOf(sourceFiles[2].body.s, <<"I", "S", "A">>) # -1
  /\ log = <<>> /\ tags = <<>>

(* ------------------------------------------------------------------ *)
(* Tags, order and frame                                                *)
(* ------------------------------------------------------------------ *)
\* the publications a recognized file calls for once its first n segments are
\* processed: one with ISA13 and GS06, then one per AK1 with its element 2
PublicationsCalledFor(file, n) ==
  LET body == file.body.s
      sep == elementSepOf(body)
      segs == rawSegmentsOf(body)
      window == Substr(body, IndexOf(body, <<"I", "S", "A">>), 106)
      gs == SelectSeq(segs, LAMBDA sg : StartsWith(sg, <<"G", "S">>))
      ak1s == SelectSeq(SubSeq(segs, 1, n), LAMBDA sg : StartsWith(sg, <<"A", "K", "1">>))
  IN  <<<<[label |-> "997 Ack File Interchange Control Number",
           value |-> ElemOr(Split(window, sep), 13, <<>>)],
          [label |-> "997 Ack File Group Control Number",
           value |-> IF gs = <<>> THEN <<>> ELSE ElemOr(Split(gs[1], sep), 6, <<>>)]>>>>
      \o [k \in 1..Len(ak1s) |->
            <<[label |-> "997 Acked Group Control Number",
               value |-> ElemOr(Split(ak1s[k], sep), 2, <<>>)]>>]

\* C21: the publications made so far are, file by file in input order, those of
\* the recognized files: first the one with ISA13 and GS06, before any segment
\* is processed, then one per AK1 segment processed, in segment order.
C21_TagPublication ==
  tags = Concat([i \in 1..fileIdx |->
                   IF results[i].is997
                   THEN PublicationsCalledFor(sourceFiles[i],
                                              Len(rawSegmentsOf(sourceFiles[i].body.s)))
                   ELSE <<>>])
         \o (IF pc = "walk" THEN PublicationsCalledFor(sourceFile, segIdx - 1) ELSE <<>>)

C21_Witness ==
  /\ pc = "walk"
  /\ Cardinality(ProcessedWith(<<"A", "K", "1">>)) = 2
  /\ Len(tags) = 3 /\ Len(tags[1]) = 2
  /\ tags[1][1].value # <<>> /\ tags[1][2].value # <<>> /\ tags[3][1].value # <<>>

\* q is the input files at some increasing positions among the finished ones
IsSubsequenceOfInput(q) == \E S \in SUBSET (1..fileIdx) : q = FilesAt(S)

\* the payload lists hold input records, unmodified and in input order
PayloadInInputOrder ==
  /\ IsSubsequenceOfInput(payload)
  /\ IsSubsequenceOfInput(accepted)
  /\ IsSubsequenceOfInput(rejected)
  /\ Done => IsSubsequenceOfInput(returned)

\* one step works on one file, the next in input order: the batch is not
\* touched, the file counter moves by at most one and only at the end of a
\* file, the log and the tags only grow, and whatever is written is written
\* for the file the loop is at
OneFileAtATime ==
  /\ sourceFiles' = sourceFiles
  /\ fileIdx' \in {fileIdx, fileIdx + 1}
  /\ (pc = "walk" /\ pc' = "walk") => fileIdx' = fileIdx
  /\ Len(log') >= Len(log) /\ SubSeq(log', 1, Len(log)) = log
  /\ Len(tags') >= Len(tags) /\ SubSeq(tags', 1, Len(tags)) = tags
  /\ (log' # log \/ tags' # tags) => fileIdx < Len(sourceFiles)
  /\ \A k \in (Len(log) + 1)..Len(log') :
       "file_name" \in DOMAIN log'[k] => log'[k].file_name = sourceFile.file_name
  /\ \/ results' = results /\ fileIdx' = fileIdx
     \/ /\ fileIdx' = fileIdx + 1
        /\ Len(results') = Len(results) + 1
        /\ SubSeq(results', 1, Len(results)) = results
        /\ results'[Len(results')].file = sourceFile

\* C22: files are processed one at a time in input order, and every payload
\* list is an order-preserving subsequence of the input records, each record
\* passed through unmodified.
C22_InputOrderKept == [][OneFileAtATime]_vars /\ []PayloadInInputOrder

C22_Witness ==
  /\ Done /\ Len(sourceFiles) = 2 /\ sourceFiles[1] # sourceFiles[2]
  /\ returned = sourceFiles
  /\ disposition = "Error"
  /\ Cardinality({ k \in 1..Len(log) : log[k].kind = "Not Accepted" }) = 2
  /\ Len(tags) >= 2

(* ------------------------------------------------------------------ *)
(* sequentially_name_files                                              *)
(* ------------------------------------------------------------------ *)
RECURSIVE ValueOf(_)
\* the number a run of decimal digits writes, -1 when it has another character
ValueOf(digits) ==
  IF digits = <<>> THEN 0
  ELSE LET d == { k \in 1..10 : Digits[k] = digits[Len(digits)] }
           rest == ValueOf(SubSeq(digits, 1, Len(digits) - 1))
       IN  IF d = {} \/ rest = -1 THEN -1 ELSE 10 * rest + (CHOOSE k \in d : TRUE) - 1

\* the i of a name "file_<i>.txt" written without leading zero, -1 for any other name
NumberOfName(name) ==
  IF /\ Len(name) > 9
     /\ SubSeq(name, 1, 5) = <<"f", "i", "l", "e", "_">>
     /\ SubSeq(name, Len(name) - 3, Len(name)) = <<".", "t", "x", "t">>
     /\ name[6] # "0"
  THEN ValueOf(SubSeq(name, 6, Len(name) - 4))
  ELSE -1

\* the input file came with a (non-empty) file_name
HadFileName(i) ==
  ~destinationFiles[i].file_name.undef /\ destinationFiles[i].file_name.s # <<>>

\* C23: the output has the input's length and order, its i-th file is the i-th
\* input file with file_name "file_<i>.txt" and nothing else changed, and one
\* info message is logged for each input file that came with a file_name, none
\* for the others; the empty list gives the empty list and no message.
C23_SequentialNames ==
  LET had == Ascending({ i \in 1..nameIndex : HadFileName(i) })
  IN  /\ Len(namedFiles) = nameIndex
      /\ \A i \in 1..nameIndex :
           /\ ~namedFiles[i].file_name.undef
           /\ NumberOfName(namedFiles[i].file_name.s) = i
           /\ namedFiles[i].type = destinationFiles[i].type
           /\ namedFiles[i].body = destinationFiles[i].body
           /\ DOMAIN namedFiles[i] = DOMAIN destinationFiles[i]
      /\ Len(namerLog) = Len(had)
      /\ \A k \in 1..Len(namerLog) :
           /\ namerLog[k].level = "info"
           /\ namerLog[k].from = destinationFiles[had[k]].file_name.s
           /\ NumberOfName(namerLog[k].to) = had[k]
      /\ namerResult.done =>
           /\ nameIndex = Len(destinationFiles)
           /\ namerResult.value = namedFiles

C23_Witness ==
  /\ namerResult.done
  /\ Len(namerResult.value) = 11
  /\ namerResult.value[11].file_name = Str(<<"f", "i", "l", "e", "_", "1", "1", ".", "t", "x", "t">>)
  /\ Len(namerLog) = 3
  /\ namerLog[3].to = <<"f", "i", "l", "e", "_", "9", ".", "t", "x", "t">>

(* ------------------------------------------------------------------ *)
(* xpath_file_filter                                                    *)
(* ------------------------------------------------------------------ *)
HasCode(file, text) == \E k \in 1..Len(file.body.codes) : file.body.codes[k] = text
\* the file parses and has both an Arrival and a Departure code
PassesFilter(file) ==
  file.body.wellFormed /\ HasCode(file, "Arrival") /\ HasCode(file, "Departure")

RECURSIVE XmlFilesAt(_)
\* the input files at the positions of S, in input order
XmlFilesAt(S) ==
  IF S = {} THEN <<>>
  ELSE LET m == CHOOSE i \in S : \A j \in S : i <= j
       IN  <<xmlSourceFiles[m]>> \o XmlFilesAt(S \ {m})

\* the one message file i is due
MessageDue(i) ==
  LET file == xmlSourceFiles[i]
  IN  /\ filterLog[i].file_name = file.file_name
      /\ filterLog[i].index = i - 1
      /\ IF ~file.body.wellFormed
         THEN filterLog[i].level = "warning"
         ELSE /\ filterLog[i].level = "info"
              /\ IF PassesFilter(file) THEN filterLog[i].kind = "satisfied all xpaths"
                 ELSE /\ filterLog[i].kind = "did not satisfy xpath"
                      /\ filterLog[i].path =
                           IF ~HasCode(file, "Arrival")
                           THEN "//event/code[text()=\"Arrival\"]"
                           ELSE "//event/code[text()=\"Departure\"]"

\* C24: the files kept are the input files that parse and satisfy every xpath,
\* in input order; each file gets one message: a warning when it does not
\* parse, an info naming the first unsatisfied xpath when one fails, an info
\* when it passes; a file that does not parse does not stop the run.
C24_XpathFilter ==
  /\ kept = XmlFilesAt({ i \in 1..filterIndex : PassesFilter(xmlSourceFiles[i]) })
  /\ Len(filterLog) = filterIndex
  /\ \A i \in 1..filterIndex : MessageDue(i)
  /\ filterResult.done => filterIndex = Len(xmlSourceFiles) /\ filterResult.value = kept

C24_Witness ==
  /\ filterResult.done /\ Len(xmlSourceFiles) = 2
  /\ ~xmlSourceFiles[1].body.wellFormed
  /\ PassesFilter(xmlSourceFiles[2])
  /\ filterResult.value = <<xmlSourceFiles[2]>>
  /\ filterLog[1].level = "warning" /\ filterLog[2].level = "info"

(* ------------------------------------------------------------------ *)
(* Missing fields and exceptions                                        *)
(* ------------------------------------------------------------------ *)
\* the segment the loop is about to process has no data element n
Short(n) == Len(Split(rawSegments[segIdx], elementSep)) <= n

\* the segments walked are the entries of the content split on the segment
\* terminator that are not blank, in order
SegmentsKept ==
  pc = "walk" =>
    LET body == sourceFile.body.s
        window == Substr(body, IndexOf(body, <<"I", "S", "A">>), 106)
        pieces == Split(body, parseDelimiters(window).segmentTerminator)
        keep == Ascending({ k \in 1..Len(pieces) :
                              \E c \in 1..Len(pieces[k]) : pieces[k][c] \notin {" ", "\t", "\n", "\r"} })
    IN  rawSegments = [k \in 1..Len(keep) |-> pieces[keep[k]]]

\* a field read from a segment that lacks it is '' ('0' for the AK9 counts),
\* and the loop goes on to the next segment
MissingFieldsReadEmpty ==
  (pc = "walk" /\ segIdx <= Len(rawSegments)) =>
    /\ pc' = "walk" /\ segIdx' = segIdx + 1 /\ rawSegments' = rawSegments
    /\ (AtSegment(<<"A", "K", "1">>) /\ Short(2)) =>
         /\ ak102' = Str(<<>>)
         /\ tags'[Len(tags')] = <<[label |-> "997 Acked Group Control Number", value |-> <<>>]>>
    /\ (AtSegment(<<"A", "K", "2">>) /\ Short(1)) => currentDocType' = <<>>
    /\ (AtSegment(<<"A", "K", "2">>) /\ Short(2)) => currentControlNumber' = <<>>
    /\ AtSegment(<<"A", "K", "3">>) =>
         LET made == currentSegmentErrors'[Len(currentSegmentErrors')]
         IN  /\ Short(1) => made.segId = <<>>
             /\ Short(2) => made.segPos = <<>>
             /\ Short(3) => made.loopId = <<>>
             /\ Short(4) => made.segError.code = <<>>
    /\ (AtSegment(<<"A", "K", "4">>) /\ currentSegment # 0) =>
         LET errs == currentSegmentErrors'[currentSegment].elementErrors
             made == errs[Len(errs)]
         IN  /\ Short(2) => made.pos = <<>>
             /\ Short(3) => made.error.code = <<>>
             /\ Short(4) => made.value = <<>>
    /\ (AtSegment(<<"A", "K", "5">>) /\ Short(1) /\ currentDocType # <<>>) =>
         /\ Len(log') = Len(log) + 1
         /\ log'[Len(log')].ackDesc.code = <<>>
         /\ log'[Len(log')].level = "info"
    /\ AtSegment(<<"A", "K", "9">>) =>
         /\ Len(log') = Len(log) + 2
         /\ Short(3) => log'[Len(log) + 1].received = <<"0">>
         /\ Short(4) => log'[Len(log) + 1].accepted = <<"0">>
         /\ Short(1) => log'[Len(log')].ak901 = <<>>

\* the ST and GS fields of a recognized file whose GS segment is absent
AbsentGsReadsEmpty ==
  (pc = "walk" /\ segIdx = 1
     /\ \A k \in 1..Len(rawSegments) : ~StartsWith(rawSegments[k], <<"G", "S">>)) =>
    tags[Len(tags)][2].value = <<>>

\* a file with "ISA" and no ST segment reads ST01 as '' and is not a 997
AbsentStReadsEmpty ==
  \A i \in 1..Len(results) :
    LET body == sourceFiles[i].body
    IN  (/\ ~body.undef /\ IndexOf(body.s, <<"I", "S", "A">>) # -1
         /\ \A k \in 1..Len(rawSegmentsOf(body.s)) :
              ~StartsWith(rawSegmentsOf(body.s)[k], <<"S", "T">>)) =>
          ~results[i].is997 /\ results[i].status.undef

\* C25: splitting on the segment terminator drops the blank entries and keeps
\* the others in order; a field read from a segment that lacks it, or from an
\* absent ST or GS segment, is '' ('0' for the AK9 received and accepted
\* counts), and the walk continues with the next segment.
C25_MissingFieldsReadEmpty ==
  /\ [][MissingFieldsReadEmpty]_vars
  /\ [](SegmentsKept /\ AbsentGsReadsEmpty /\ AbsentStReadsEmpty)

C25_Witness ==
  /\ Done /\ sourceFiles = <<ShortFieldsFile>>
  /\ results[1].is997 /\ results[1].status = Str(<<>>)
  /\ Len(log) = 5
  /\ log[2].received = <<"0">> /\ log[2].accepted = <<"0">>
  /\ log[4].received = <<"2">> /\ log[4].accepted = <<"0">>
  /\ Len(tags) = 3 /\ tags[2][1].value = <<>> /\ tags[3][1].value = <<>>

(* ------------------------------------------------------------------ *)
(* Termination                                                          *)
(* ------------------------------------------------------------------ *)
\* one return function is called, once, when every file has its result, and
\* nothing happens after it; the segment loop takes the segments one by one,
\* from the first to the last
OneReturnAfterAll ==
  /\ disposition = "none"
  /\ disposition' # disposition =>
       /\ disposition' \in {"Skipped", "Error", "Success"}
       /\ fileIdx = Len(sourceFiles) /\ Len(results) = Len(sourceFiles)
       /\ pc' = "done"
  /\ (pc = "loop" /\ pc' = "walk") => segIdx' = 1
  /\ pc = "walk" =>
       \/ segIdx <= Len(rawSegments) /\ segIdx' = segIdx + 1 /\ pc' = "walk"
                                     /\ rawSegments' = rawSegments
       \/ segIdx = Len(rawSegments) + 1 /\ pc' = "loop" /\ fileIdx' = fileIdx + 1

\* C26: the processor terminates, having called exactly one of returnSkipped,
\* returnError and returnSuccess, once, after all files have been classified;
\* the segments of a file are visited once each, in order.
C26_TerminatesWithOneReturn ==
  /\ <>(Done /\ disposition # "none" /\ Len(results) = Len(sourceFiles))
  /\ [][OneReturnAfterAll]_vars

C26_Witness ==
  /\ Done /\ disposition = "Success"
  /\ Len(results) = 2 /\ results[1].is997 /\ ~results[2].is997
  /\ segIdx = Len(rawSegments) + 1 /\ Len(rawSegments) > 4

(* ------------------------------------------------------------------ *)
(* Exceptions                                                           *)
(* ------------------------------------------------------------------ *)
\* a step taken for a file whose body is a string writes no "Error processing
\* file" line
StringBodyNeverThrows ==
  (pc # "done" /\ fileIdx < Len(sourceFiles) /\ ~sourceFile.body.undef) =>
    \A k \in (Len(log) + 1)..Len(log') : log'[k].kind # "Error processing file"

\* the result of a file whose body is a string is the gate's verdict
StringBodyDecidedByGate ==
  \A i \in 1..Len(results) :
    ~sourceFiles[i].body.undef =>
      /\ results[i].is997 <=> ~GateRejects(sourceFiles[i])
      /\ results[i].is997 => ~results[i].status.undef
      /\ results[i].file = sourceFiles[i]

\* C27: for a file whose body is a string, whatever its length and content,
\* parse997File never takes its exception path: no "Error processing file"
\* line is written and the result is the one the gate and the walk give.
C27_StringBodiesNeverThrow ==
  [][StringBodyNeverThrows]_vars /\ []StringBodyDecidedByGate

C27_Witness ==
  /\ Done /\ sourceFiles = <<TruncatedFile, EmptyFile>>
  /\ ~results[1].is997 /\ ~results[2].is997
  /\ log = <<>>

(* ------------------------------------------------------------------ *)
(* The segment-error cursor and stray segment errors                    *)
(* ------------------------------------------------------------------ *)
\* a transaction is open when the segment at position p is reached: the last
\* AK2 before p names a document type and no AK5 has come since
OpenAt(p) ==
  LET ak2s == { a \in 1..(p - 1) : StartsWith(rawSegments[a], <<"A", "K", "2">>) }
      last == IF ak2s = {} THEN 0 ELSE CHOOSE a \in ak2s : \A b \in ak2s : b <= a
  IN  /\ last # 0
      /\ ElementOf(last, 1) # <<>>
      /\ \A q \in (last + 1)..(p - 1) : ~StartsWith(rawSegments[q], <<"A", "K", "5">>)

\* the cursor is empty or is the last of the accumulated segment errors
CursorIsLast ==
  pc = "walk" => currentSegment \in {0, Len(currentSegmentErrors)}

\* only an AK5 that closes an open transaction writes a transaction message,
\* and the message lists only segment errors of AK3 segments met while that
\* transaction was open
StrayErrorsNotLogged ==
  (pc = "walk" /\ segIdx <= Len(rawSegments)) =>
    IF AtSegment(<<"A", "K", "5">>) /\ OpenAt(segIdx)
    THEN LET during == Ascending({ p \in ProcessedWith(<<"A", "K", "3">>) :
                                     OpenAt(p) /\ p > LastAk2 })
             listed == log'[Len(log')].segmentErrors
         IN  /\ Len(log') = Len(log) + 1
             /\ log'[Len(log')].kind = "Transaction"
             /\ Len(listed) = Len(during)
             /\ \A k \in 1..Len(listed) :
                  /\ listed[k].segId = ElementOf(during[k], 1)
                  /\ listed[k].segPos = ElementOf(during[k], 2)
    ELSE \A k \in (Len(log) + 1)..Len(log') : log'[k].kind # "Transaction"

\* C28: during a walk the segment-error cursor is empty or is the last element
\* of the accumulated list, and segment errors accumulated while no
\* transaction is open are in no logged transaction message.
C28_CursorAndStrayErrors == []CursorIsLast /\ [][StrayErrorsNotLogged]_vars

C28_Witness ==
  /\ AfterSegment(<<"A", "K", "5">>)
  /\ \E p \in ProcessedWith(<<"A", "K", "3">>) : ~OpenAt(p)
  /\ Len(log) = 1 /\ log[1].kind = "Transaction" /\ log[1].segmentErrors = <<>>
  /\ currentSegment = 0 /\ currentSegmentErrors = <<>>

(* ------------------------------------------------------------------ *)
(* The returned status                                                  *)
(* ------------------------------------------------------------------ *)
ReadsAsAccepted(code) == ToUpperCase(code) = <<"A">>

\* the status of a recognized file is 'A' exactly when every AK9 code of the
\* file is 'A' in upper case, and a status other than 'A' is not 'A' in upper
\* case either
StatusIsAIffAllAccepted ==
  \A i \in 1..Len(results) :
    results[i].is997 =>
      LET codes == Ak9CodesOf(sourceFiles[i])
      IN  /\ ~results[i].status.undef
          /\ results[i].status.s = <<"A">> <=> \A k \in 1..Len(codes) : ReadsAsAccepted(codes[k])
          /\ results[i].status.s # <<"A">> => ~ReadsAsAccepted(results[i].status.s)

\* the same of the status held during the walk
LatchIsNotAccepted ==
  (pc = "walk" /\ overallStatus # <<"A">>) => ~ReadsAsAccepted(overallStatus)

\* C29: the status returned for a recognized 997 is 'A' if and only if every
\* AK9 code of the file is 'A' in upper case, and a latched status is never a
\* value that is 'A' in upper case.
C29_StatusAIffAllAccepted == StatusIsAIffAllAccepted /\ LatchIsNotAccepted

C29_Witness ==
  /\ Done /\ Len(results) = 1 /\ results[1].is997
  /\ Ak9CodesOf(sourceFiles[1]) = <<<<"a">>, <<"A">>>>
  /\ results[1].status = Str(<<"A">>)
  /\ disposition = "Success"

(* ------------------------------------------------------------------ *)
(* A failed file and the disposition                                    *)
(* ------------------------------------------------------------------ *)
\* parse997File failed on the file at position i: its catch block wrote the
\* file's error line
FailedAt(i) ==
  \E k \in 1..Len(log) :
    log[k].kind = "Error processing file" /\ log[k].file_name = sourceFiles[i].file_name
AcceptedAt(i) == results[i].is997 /\ results[i].status = Str(<<"A">>)

\* C30: a file on which parse997File failed never turns the batch into Error:
\* a batch of failed files and files that are not 997s is Skipped with an empty
\* payload, and a batch of failed files and accepted 997s is Success with the
\* accepted files, although an error line was written.
C30_FailureDoesNotEscalate ==
  Done =>
    /\ (\A i \in FilePositions : FailedAt(i) \/ ~results[i].is997) =>
         disposition = "Skipped" /\ returned = <<>>
    /\ (/\ \A i \in FilePositions : FailedAt(i) \/ AcceptedAt(i)
        /\ \E i \in FilePositions : AcceptedAt(i)) =>
         /\ disposition = "Success"
         /\ returned = FilesAt({ i \in FilePositions : AcceptedAt(i) })
    /\ \A i \in FilePositions : FailedAt(i) => ~results[i].is997 /\ InNoPayload(sourceFiles[i])
    /\ disposition = "Error" => \E i \in FilePositions : results[i].is997 /\ ~AcceptedAt(i)

C30_Witness ==
  /\ Done /\ Len(sourceFiles) = 2
  /\ FailedAt(1) /\ AcceptedAt(2)
  /\ \E k \in 1..Len(log) : log[k].level = "error"
  /\ disposition = "Success" /\ returned = <<sourceFiles[2]>>

====
